---- MODULE Spec2Model ----
(***************************************************************************)
(* Colony 4B: the interaction-state and command-resolution core.           *)
(*                                                                         *)
(* The module models the ColonyTime clock, the Player record, the Rooms    *)
(* with their interaction states, and the Game's command handlers.         *)
(*                                                                         *)
(* Time.  The code keeps hours as a float and only ever adds 0.5 (travel,  *)
(* mining, deposits); the tests add whole hours.  The model counts hours   *)
(* in half-hour ticks: the field "hours" of a clock holds 2 * hours, and   *)
(* Ticks(h) converts a number of hours.  A day is Ticks(DAY_LENGTH) ticks. *)
(***************************************************************************)
EXTENDS Integers, Sequences, FiniteSets, TLC

VARIABLES
    player,            \* Game.player: the Player record
    time,              \* Game.time: the ColonyTime of the game
    rooms,             \* every Room of the world, by name
    current_room,      \* Game.current_room (a Room name)
    mining_attempts,   \* Game.mining_attempts
    total_donations,   \* Game.total_donations
    debug_mode,        \* Game.debug_mode
    suppress_next_room_display,
    command,           \* the input of the turn being processed
    script,            \* how many commands of a scripted opening were typed
    pc,                \* position in Game.play: "input", "tail", "refused", "done"
    ending,            \* which ending ran, or "none"
    clock,             \* a ColonyTime under test (component specification)
    clock_cum,         \* hours (in ticks) applied to it so far
    clock_call,        \* the last advance_time call on it: argument and outcome
    unit,              \* a Player under test (component specification)
    unit_call,         \* the last add/remove call on it: operation, item, result,
                       \* and the inventory before the call
    room_call          \* the last call made on a Room under test (component
                       \* specification): its number, operation, argument, result,
                       \* how many times in a row that same call was made, and
                       \* the interaction state the room was in before it

vars == <<player, time, rooms, current_room, mining_attempts, total_donations,
          debug_mode, suppress_next_room_display, command, script, pc, ending,
          clock, clock_cum, clock_call, unit, unit_call, room_call>>

gameVars == <<player, time, rooms, current_room, mining_attempts, total_donations,
              debug_mode, suppress_next_room_display, command, script, pc, ending>>

clockVars == <<clock, clock_cum, clock_call>>

unitVars == <<unit, unit_call>>

roomVars == <<room_call>>

-----------------------------------------------------------------------------
(* game_constants.py *)

FOREMAN_SPAWN_DONATION_THRESHOLD == 200
MINIMUM_DONATION == 10
PROPHECY_COST == 50
SOIL_SAMPLES_REQUIRED == 10
BLACK_MARKET_ID_PRICE == 4000
BACKPACK_PRICE == 500
STEAMED_BUNS_PRICE == 150
MINING_UPGRADE_PRICE == 1500
SOIL_SELL_PRICE == 10
CLAGNUM_SELL_PRICE == 50
MATTERSTONE_SELL_PRICE == 100
WEEKLY_AMBROSIUM_QUOTA == 20
QUOTA_PERIOD_DAYS == 3
FACILITY_CLOSE_HOUR == 15
FACILITY_OPEN_HOUR == 20
SKELETON_DISCOVERY_THRESHOLD == 40
AMBROSIUM_CLUSTER_VALUE == 5
MINSHIN_PER_AMBROSIUM_POST_QUOTA == 250
INITIAL_MINSHIN == 50
MAX_INVENTORY_DEFAULT == 10
MAX_INVENTORY_UPGRADED == 20
MAX_RESOURCE_STACK == 10

\* time_system.py: "A day in the colony is 20 hours long."
DAY_LENGTH == 20

-----------------------------------------------------------------------------
(* Sequence helpers (Python list operations) *)

Range(s) == {s[i] : i \in 1..Len(s)}

\* sum(1 for x in s if x == e)
Count(s, e) == Cardinality({i \in 1..Len(s) : s[i] = e})

\* [x for x in s if keep(x)]
Filter(s, Keep(_)) == SelectSeq(s, Keep)

\* list.index(e) (1-based); 0 when absent
IndexOf(s, e) ==
    IF e \in Range(s) THEN CHOOSE i \in 1..Len(s) : s[i] = e /\ \A j \in 1..(i-1) : s[j] # e
    ELSE 0

\* list.remove(e): deletes the first occurrence
RemoveFirst(s, e) ==
    LET i == IndexOf(s, e)
    IN IF i = 0 THEN s ELSE SubSeq(s, 1, i-1) \o SubSeq(s, i+1, Len(s))

\* list.insert(0, e)
InsertFront(s, e) == <<e>> \o s

-----------------------------------------------------------------------------
(* items.py *)

KeyItems == {"ID card", "mining gun", "lucky coin", "Steamed Buns",
             "Communications Tower ID Card"}

Resources == {"Ambrosium Crystal", "Thebian Ground Soil", "Clagnum Putty",
              "Matterstone Ore", "Ambrosium Cluster"}

ITEMS == KeyItems \cup Resources

ItemType(item) == IF item \in KeyItems THEN "KEY_ITEM" ELSE "RESOURCE"

\* str.lower() on the item and room names the game compares case-insensitively
Lower(name) ==
    CASE name = "ID card" -> "id card"
      [] name = "mining gun" -> "mining gun"
      [] name = "lucky coin" -> "lucky coin"
      [] name = "Steamed Buns" -> "steamed buns"
      [] name = "Communications Tower ID Card" -> "communications tower id card"
      [] name = "Ambrosium Crystal" -> "ambrosium crystal"
      [] name = "Thebian Ground Soil" -> "thebian ground soil"
      [] name = "Clagnum Putty" -> "clagnum putty"
      [] name = "Matterstone Ore" -> "matterstone ore"
      [] name = "Ambrosium Cluster" -> "ambrosium cluster"
      [] name = "Your Quarters" -> "your quarters"
      [] name = "Residential Corridor" -> "residential corridor"
      [] name = "Residential Entrance" -> "residential entrance"
      [] name = "Central Plaza" -> "central plaza"
      [] name = "Colony Market" -> "colony market"
      [] name = "Memorial Pond" -> "memorial pond"
      [] name = "Security Checkpoint (Residential)" -> "security checkpoint (residential)"
      [] name = "Security Checkpoint (Industrial)" -> "security checkpoint (industrial)"
      [] name = "Residential Checkpoint Gate" -> "residential checkpoint gate"
      [] name = "Industrial Checkpoint Gate" -> "industrial checkpoint gate"
      [] name = "Industrial Plaza" -> "industrial plaza"
      [] name = "Refinery" -> "refinery"
      [] name = "Mine Entrance" -> "mine entrance"
      [] name = "Deposit Station" -> "deposit station"
      [] name = "Communications Tower Entrance" -> "communications tower entrance"
      [] OTHER -> name

-----------------------------------------------------------------------------
(* time_system.py *)

Ticks(h) == 2 * h

HalfHour == Ticks(1) \div 2

\* ColonyTime.__init__
NewColonyTime == [hours |-> 0, days |-> 0]

\* a rollover that counts one new day however many day lengths have passed
AdvanceRolloverOneDay(t, h) ==
    LET sum == t.hours + h
    IN IF sum >= Ticks(DAY_LENGTH)
       THEN [hours |-> sum % Ticks(DAY_LENGTH), days |-> t.days + 1]
       ELSE [t EXCEPT !.hours = sum]

\* ColonyTime.advance_time(hours) for hours >= 0: the clock afterwards
AdvanceRollover(t, h) ==
    LET sum == t.hours + h
    IN IF sum >= Ticks(DAY_LENGTH)
       THEN [hours |-> sum % Ticks(DAY_LENGTH),
             days |-> t.days + (sum \div Ticks(DAY_LENGTH))]
       ELSE [t EXCEPT !.hours = sum]

\* an advance_time that takes a negative argument for no advance at all
AdvanceTimeClamped(t, h) ==
    IF h < 0 THEN [time |-> t, result |-> "False"]
    ELSE [time |-> AdvanceRollover(t, h),
          result |-> IF t.hours + h >= Ticks(DAY_LENGTH) THEN "True" ELSE "False"]

\* ColonyTime.advance_time: [time, result], result "True"/"False" (new day
\* began or not) or "ValueError" (negative argument: nothing is changed)
AdvanceTime(t, h) ==
    IF h < 0 THEN [time |-> t, result |-> "ValueError"]
    ELSE LET n == AdvanceRollover(t, h)
         IN [time |-> n,
             result |-> IF t.hours + h >= Ticks(DAY_LENGTH) THEN "True" ELSE "False"]

-----------------------------------------------------------------------------
(* player.py *)

\* Player.__init__
NewPlayer ==
    [minshin |-> INITIAL_MINSHIN,
     inventory |-> <<>>,
     max_inventory |-> MAX_INVENTORY_DEFAULT,
     ambrosium_quota |-> WEEKLY_AMBROSIUM_QUOTA,
     quota_fulfilled |-> 0,
     quota_celebration_shown |-> FALSE,
     has_found_skeleton |-> FALSE,
     long_quest_complete |-> FALSE,
     ephsus_quest_complete |-> FALSE,
     ephsus_soil_given |-> 0,
     creedal_quest_complete |-> FALSE,
     cecil_quest_complete |-> FALSE,
     weatherbee_quest_read_bulletin |-> FALSE,
     weatherbee_quest_congratulated |-> FALSE,
     weatherbee_quest_complete |-> FALSE,
     bought_xl_backpack |-> FALSE,
     bought_steamed_buns |-> FALSE,
     bought_mining_gun_upgrade |-> FALSE,
     bought_blackest_market_card |-> FALSE]

\* an is_inventory_full that always finds room
IsInventoryFullNever(p) == FALSE

\* Player.is_inventory_full
IsInventoryFull(p) == Len(p.inventory) >= p.max_inventory

\* Player.add_to_inventory: TRUE when the item is appended
CanAdd(p, item) ==
    /\ ~(ItemType(item) = "RESOURCE" /\ Count(p.inventory, item) >= MAX_RESOURCE_STACK)
    /\ ~IsInventoryFull(p)

\* an add_to_inventory that forgets the resource stack limit
AddToInventoryNoStackLimit(p, item) ==
    IF ~IsInventoryFull(p) THEN [p EXCEPT !.inventory = Append(@, item)] ELSE p

\* Player.add_to_inventory: the player afterwards
AddToInventory(p, item) ==
    IF CanAdd(p, item) THEN [p EXCEPT !.inventory = Append(@, item)] ELSE p

\* the allow-list of key items remove_from_inventory lets go
RemovableKeyItems == {"Steamed Buns", "lucky coin", "Communications Tower ID Card"}

\* a remove_from_inventory without the key item guard
CanRemoveAnything(p, item) == item \in Range(p.inventory)

\* Player.remove_from_inventory: TRUE when an instance is removed
CanRemove(p, item) ==
    /\ ~(ItemType(item) = "KEY_ITEM" /\ item \notin RemovableKeyItems)
    /\ item \in Range(p.inventory)

\* Player.remove_from_inventory: the player afterwards
RemoveFromInventory(p, item) ==
    IF CanRemove(p, item) THEN [p EXCEPT !.inventory = RemoveFirst(@, item)] ELSE p

\* a has_item that finds whatever is asked for
HasItemAlways(p, item) == TRUE

\* Player.has_item
HasItem(p, item) == item \in Range(p.inventory)

\* Player.get_item_by_name: the first inventory item whose lowered name is the
\* lowered argument, or "None"
GetItemByName(p, name) ==
    LET hits == {i \in 1..Len(p.inventory) : Lower(p.inventory[i]) = Lower(name)}
    IN IF hits = {} THEN "None"
       ELSE p.inventory[CHOOSE i \in hits : \A j \in hits : i <= j]

\* Player.all_quests_complete
AllQuestsComplete(p) ==
    /\ p.long_quest_complete
    /\ p.ephsus_quest_complete
    /\ p.creedal_quest_complete
    /\ p.cecil_quest_complete
    /\ p.weatherbee_quest_complete

-----------------------------------------------------------------------------
(* room.py: Room *)

\* InteractionState(interactions, parent)
InteractionState(interactions, parent) == [interactions |-> interactions, parent |-> parent]

\* the states every Room is constructed with (Room.__init__)
BaseStates ==
    [s \in {"main", "inventory", "terminal", "personal_info", "viewing_info", "cupboard"} |->
        CASE s = "main" -> InteractionState(<<>>, "None")
          [] s = "inventory" -> InteractionState(<<"go back">>, "main")
          [] s = "terminal" -> InteractionState(<<"check weekly quota", "check news",
                                                  "personal information", "go back">>, "main")
          [] s = "personal_info" -> InteractionState(<<"insert id card", "go back">>, "terminal")
          [] s = "viewing_info" -> InteractionState(<<"remove ID card and go back">>, "terminal")
          [] s = "cupboard" -> InteractionState(<<"take ID card", "take mining gun", "go back">>,
                                                "main")]

\* Room.__init__
NewRoom(name) ==
    [name |-> name,
     exits |-> << >>,
     items |-> <<>>,
     hidden_items |-> << >>,
     containers_opened |-> <<>>,
     npcs |-> <<>>,
     messages |-> <<>>,
     current_interaction_state |-> "main",
     interaction_states |-> BaseStates]

\* dict[key] = value
Put(f, key, value) == [k \in DOMAIN f \cup {key} |-> IF k = key THEN value ELSE f[k]]

\* interaction_states[state].interactions.append(label)
AppendInteraction(room, state, label) ==
    [room EXCEPT !.interaction_states[state].interactions = Append(@, label)]

\* interaction_states[state].interactions = labels
SetInteractions(room, state, labels) ==
    [room EXCEPT !.interaction_states[state].interactions = labels]

\* an add_exit that leaves the menu alone
AddExitUnlisted(room, direction, target) == [room EXCEPT !.exits = Put(@, direction, target)]

\* Room.add_exit
AddExit(room, direction, target) ==
    AppendInteraction([room EXCEPT !.exits = Put(@, direction, target)],
                      "main", "go " \o direction)

\* Room.get_exit: the Room name, or "None"
GetExit(room, direction) ==
    IF direction \in DOMAIN room.exits THEN room.exits[direction] ELSE "None"

\* Room.add_item
AddItem(room, item_name) ==
    IF item_name \in ITEMS
    THEN AppendInteraction([room EXCEPT !.items = Append(@, item_name)],
                           "main", "take " \o item_name)
    ELSE room

\* Room.remove_item
RemoveItem(room, item) ==
    IF item \in Range(room.items)
    THEN LET Keep(i) == i # "take " \o item
         IN [room EXCEPT !.items = RemoveFirst(@, item),
                         !.interaction_states["main"].interactions = Filter(@, Keep)]
    ELSE room

\* an add_npc that appends without looking
AddNpcAgain(room, npc) ==
    AppendInteraction([room EXCEPT !.npcs = Append(@, npc)], "main", "talk to " \o npc)

\* Room.add_npc
AddNpc(room, npc) ==
    LET r1 == IF npc \notin Range(room.npcs) THEN [room EXCEPT !.npcs = Append(@, npc)]
              ELSE room
        talk_interaction == "talk to " \o npc
    IN IF talk_interaction \notin Range(r1.interaction_states["main"].interactions)
       THEN AppendInteraction(r1, "main", talk_interaction)
       ELSE r1

\* Room.add_hidden_items
AddHiddenItems(room, container, items) ==
    AppendInteraction([room EXCEPT !.hidden_items = Put(@, container, items)],
                      "main", "open " \o container)

\* Room.get_available_interactions
GetAvailableInteractions(room) ==
    IF room.current_interaction_state \in DOMAIN room.interaction_states
    THEN room.interaction_states[room.current_interaction_state].interactions
    ELSE <<>>

\* Room.add_message
AddMessage(room, message) == [room EXCEPT !.messages = Append(@, message)]

\* a get_messages that returns the queue and keeps it
GetMessagesKeeps(room) == room

\* Room.get_messages: the Room afterwards (the queue is returned and cleared)
GetMessages(room) == [room EXCEPT !.messages = <<>>]

\* Room.add_interaction_state
AddInteractionState(room, state_name, interactions, parent) ==
    [room EXCEPT !.interaction_states = Put(@, state_name, InteractionState(interactions, parent))]

\* Room.add_simple_interaction_state
AddSimpleInteractionState(room, state_name, parent) ==
    AddInteractionState(room, state_name, <<"go back">>, parent)

\* a set_interaction_state that stays where it is when the state is unknown
SetInteractionStateOrStay(room, state) ==
    IF state \in DOMAIN room.interaction_states
    THEN [room EXCEPT !.current_interaction_state = state]
    ELSE room

\* Room.set_interaction_state: an unknown state falls back to "main"
SetInteractionState(room, state) ==
    IF state \in DOMAIN room.interaction_states
    THEN [room EXCEPT !.current_interaction_state = state]
    ELSE [room EXCEPT !.current_interaction_state = "main"]

\* a get_parent_state that knows no parent but "main"
GetParentStateMain(room) == "main"

\* Room.get_parent_state
GetParentState(room) ==
    IF /\ room.current_interaction_state \in DOMAIN room.interaction_states
       /\ room.interaction_states[room.current_interaction_state].parent # "None"
    THEN room.interaction_states[room.current_interaction_state].parent
    ELSE "main"

-----------------------------------------------------------------------------
(* room.py: RoomFactory *)

\* RoomFactory.create_player_home
CreatePlayerHome ==
    AppendInteraction(
        AddHiddenItems(NewRoom("Your Quarters"), "cupboard", <<"ID card", "mining gun">>),
        "main", "check terminal")

\* RoomFactory.create_residential_corridor
CreateResidentialCorridor ==
    LET r1 == AddNpc(NewRoom("Residential Corridor"), "Greyman Cecil")
        r2 == AddInteractionState(r1, "cecil_talk",
                  <<"who is this man and why is covered in grey dust",
                    "say \"you alright cecil\"", "leave">>, "main")
        r3 == AddSimpleInteractionState(r2, "cecil_info", "cecil_talk")
        r4 == AddInteractionState(r3, "cecil_alright",
                  <<"are you sure you alright?", "go back">>, "cecil_talk")
    IN AddSimpleInteractionState(r4, "cecil_quest_prompt", "cecil_alright")

\* RoomFactory.reset_residential_corridor
ResetResidentialCorridor(room) ==
    LET r1 == IF "Greyman Cecil" \notin Range(room.npcs) THEN AddNpc(room, "Greyman Cecil")
              ELSE room
    IN IF "talk to Greyman Cecil" \notin Range(r1.interaction_states["main"].interactions)
       THEN AppendInteraction(r1, "main", "talk to Greyman Cecil")
       ELSE r1

\* RoomFactory.create_residential_entrance
CreateResidentialEntrance ==
    AppendInteraction(
        AddInteractionState(NewRoom("Residential Entrance"), "bulletin_board",
            <<"read notice about quota increase", "read warning about oxygen generators",
              "read recent job listings", "read an advert for a vendor at the market",
              "step away from bulletin board">>, "main"),
        "main", "look at bulletin board")

\* RoomFactory.create_central_plaza
CreateCentralPlaza ==
    LET r1 == AddNpc(NewRoom("Central Plaza"), "Science Officer Ephsus")
        r2 == AddInteractionState(r1, "ephsus_initial",
                  <<"ask about thebian ground soil", "ask why looks like she's contemplating",
                    "go back to plaza">>, "main")
        r3 == AddInteractionState(r2, "ephsus_quest_prompt",
                  <<"offer thebian ground soil", "go back">>, "ephsus_initial")
        r4 == AddSimpleInteractionState(r3, "ephsus_matterstone", "ephsus_initial")
        r5 == AddSimpleInteractionState(r4, "ephsus_contemplating", "ephsus_initial")
    IN AddSimpleInteractionState(r5, "tower_gaze", "main")

\* RoomFactory.create_market
CreateMarket ==
    LET r1 == AddSimpleInteractionState(NewRoom("Colony Market"), "market_stall", "main")
        r2 == AddSimpleInteractionState(r1, "blackest_market", "main")
        r3 == AddSimpleInteractionState(r2, "blackest_market_sign", "main")
        r4 == AppendInteraction(r3, "main", "approach Merchant Armedas stall")
        r5 == AppendInteraction(r4, "main", "approach Blackest of Markets stall")
        r6 == AppendInteraction(r5, "main", "visit Hinter's Prophecies")
    IN AddInteractionState(r6, "hinter_prophecies",
           <<"what should I pay my attention to? (50 Minshin)", "leave">>, "main")

\* RoomFactory.create_memorial_pond
CreateMemorialPond ==
    LET r1 == AppendInteraction(NewRoom("Memorial Pond"), "main", "read memorial pond plaque")
        r2 == AppendInteraction(r1, "main", "donate minshin into donation terminal")
        r3 == AddSimpleInteractionState(r2, "read_plaque", "main")
        r4 == AddInteractionState(r3, "donating", <<>>, "main")
        r5 == AddInteractionState(r4, "foreman_long_initial",
                  <<"ask about his job", "ask why he's here", "leave">>, "main")
        r6 == AddSimpleInteractionState(r5, "foreman_long_job", "foreman_long_initial")
    IN AddSimpleInteractionState(r6, "foreman_long_reason", "foreman_long_initial")

\* RoomFactory.create_security_checkpoint_residential
CreateSecurityCheckpointResidential ==
    LET r1 == AddNpc(NewRoom("Security Checkpoint (Residential)"), "Security Officer Creedal")
        r2 == AddInteractionState(r1, "creedal_talk",
                  <<"ask about the industrial sector", "ask why creedal is drooling",
                    "go back">>, "main")
        r3 == AddInteractionState(r2, "creedal_quest_prompt",
                  <<"stay strong creed", "go back">>, "creedal_talk")
    IN AppendInteraction(r3, "main", "go industrial sector")

\* RoomFactory.create_security_checkpoint_industrial
CreateSecurityCheckpointIndustrial ==
    LET r1 == AddNpc(NewRoom("Security Checkpoint (Industrial)"), "Security Officer Weatherbee")
        r2 == AddInteractionState(r1, "weatherbee_talk",
                  <<"ask about the residential sector", "go back">>, "main")
        r3 == AddInteractionState(r2, "weatherbee_spirits_prompt",
                  <<"give weatherbee a high five", "go back">>, "weatherbee_talk")
    IN AppendInteraction(r3, "main", "go residential sector")

\* RoomFactory.create_security_checkpoint_residential_gate
CreateSecurityCheckpointResidentialGate == NewRoom("Residential Checkpoint Gate")

\* RoomFactory.create_security_checkpoint_industrial_gate
CreateSecurityCheckpointIndustrialGate == NewRoom("Industrial Checkpoint Gate")

\* RoomFactory.create_industrial_plaza (first call: the cache is empty)
CreateIndustrialPlaza == NewRoom("Industrial Plaza")

\* RoomFactory.create_refinery (first call: the cache is empty)
CreateRefinery ==
    LET r1 == AppendInteraction(NewRoom("Refinery"), "main", "deposit non-ambrosium materials")
        r2 == AppendInteraction(r1, "main", "view 'refinery for dummies' handbook")
    IN AddInteractionState(r2, "refinery_prompt", <<"insert ID card", "go back">>, "main")

\* RoomFactory.create_mine_entrance
CreateMineEntrance ==
    LET r1 == AddItem(NewRoom("Mine Entrance"), "Ambrosium Crystal")
        r2 == AppendInteraction(r1, "main", "mine away")
    IN AppendInteraction(r2, "main", "view 'how to mine' handbook")

\* RoomFactory.create_deposit_station
CreateDepositStation ==
    LET r1 == AddItem(NewRoom("Deposit Station"), "lucky coin")
        r2 == AppendInteraction(r1, "main", "deposit resources")
        r3 == AppendInteraction(r2, "main", "view 'depositing 101' handbook")
    IN AddInteractionState(r3, "deposit_prompt", <<"insert ID card", "go back">>, "main")

\* RoomFactory.create_communications_tower_entrance
CreateCommunicationsTowerEntrance ==
    AddInteractionState(
        AppendInteraction(NewRoom("Communications Tower Entrance"), "main", "approach terminal"),
        "approaching_terminal", <<"insert ID card", "go back">>, "main")

-----------------------------------------------------------------------------
(* game.py: Game.create_rooms *)

\* phase one: every Room is created
CreatedRooms ==
    LET all == {CreatePlayerHome, CreateResidentialCorridor, CreateResidentialEntrance,
                CreateCentralPlaza, CreateMarket, CreateMemorialPond,
                CreateSecurityCheckpointResidential, CreateSecurityCheckpointIndustrial,
                CreateSecurityCheckpointResidentialGate,
                CreateSecurityCheckpointIndustrialGate, CreateIndustrialPlaza,
                CreateRefinery, CreateMineEntrance, CreateDepositStation,
                CreateCommunicationsTowerEntrance}
    IN [n \in {r.name : r \in all} |-> CHOOSE r \in all : r.name = n]

\* the add_exit calls of create_rooms, in order: <<from, direction, to>>
ExitList ==
    << <<"Your Quarters", "residential corridor", "Residential Corridor">>,
       <<"Residential Corridor", "your quarters", "Your Quarters">>,
       <<"Residential Corridor", "residential entrance", "Residential Entrance">>,
       <<"Residential Entrance", "residential corridor", "Residential Corridor">>,
       <<"Residential Entrance", "central plaza", "Central Plaza">>,
       <<"Central Plaza", "residential district", "Residential Entrance">>,
       <<"Central Plaza", "colony market", "Colony Market">>,
       <<"Central Plaza", "memorial pond", "Memorial Pond">>,
       <<"Central Plaza", "security checkpoint", "Security Checkpoint (Residential)">>,
       <<"Central Plaza", "communications tower", "Communications Tower Entrance">>,
       <<"Communications Tower Entrance", "central plaza", "Central Plaza">>,
       <<"Colony Market", "central plaza", "Central Plaza">>,
       <<"Memorial Pond", "central plaza", "Central Plaza">>,
       <<"Security Checkpoint (Residential)", "central plaza", "Central Plaza">>,
       <<"Residential Checkpoint Gate", "industrial plaza", "Industrial Plaza">>,
       <<"Security Checkpoint (Industrial)", "industrial plaza", "Industrial Plaza">>,
       <<"Industrial Checkpoint Gate", "central plaza", "Central Plaza">>,
       <<"Industrial Plaza", "security checkpoint", "Security Checkpoint (Industrial)">>,
       <<"Industrial Plaza", "refinery", "Refinery">>,
       <<"Industrial Plaza", "mine entrance", "Mine Entrance">>,
       <<"Industrial Plaza", "deposit station", "Deposit Station">>,
       <<"Refinery", "industrial plaza", "Industrial Plaza">>,
       <<"Mine Entrance", "industrial plaza", "Industrial Plaza">>,
       <<"Deposit Station", "industrial plaza", "Industrial Plaza">> >>

\* phase two: the first n exits are wired
RECURSIVE ConnectRooms(_, _)
ConnectRooms(rs, n) ==
    IF n = 0 THEN rs
    ELSE LET prev == ConnectRooms(rs, n - 1)
             e == ExitList[n]
         IN [prev EXCEPT ![e[1]] = AddExit(@, e[2], e[3])]

\* Game.create_rooms: the world after construction
CreateRooms == ConnectRooms(CreatedRooms, Len(ExitList))

RoomNames == DOMAIN CreatedRooms

-----------------------------------------------------------------------------
(* Initial states *)

NoCommand == [word |-> "None", second |-> "None", number |-> 0]

\* Game.__init__
GameInit ==
    /\ player = NewPlayer
    /\ time = NewColonyTime
    /\ rooms = CreateRooms
    /\ current_room = "Your Quarters"
    /\ mining_attempts = 0
    /\ total_donations = 0
    /\ debug_mode = FALSE
    /\ suppress_next_room_display = FALSE
    /\ command = NoCommand
    /\ script = 0
    /\ pc = "input"
    /\ ending = "none"

\* a fresh ColonyTime, no call made on it yet
ClockInit ==
    /\ clock = NewColonyTime
    /\ clock_cum = 0
    /\ clock_call = [arg |-> 0, result |-> "None"]

\* a fresh Player, no call made on it yet
UnitInit ==
    /\ unit = NewPlayer
    /\ unit_call = [op |-> "None", item |-> "None", result |-> FALSE]

\* no call made yet on the Room under test
RoomInit == room_call = [n |-> 0, op |-> "None", arg |-> "None", result |-> <<>>, repeats |-> 0,
                         from |-> "main"]

\* the state after construction: the Game, and the objects under test
Init == GameInit /\ ClockInit /\ UnitInit /\ RoomInit

-----------------------------------------------------------------------------
(* Component specification: a ColonyTime driven by advance_time calls *)

\* the longest run of the clock, in hours
MaxClockHours == 80

\* the arguments of advance_time, in ticks: -5, 0, 0.5, 2, 10, 20 and 45 hours
ClockInputs == {0 - Ticks(5), 0, HalfHour, Ticks(2), Ticks(10), Ticks(20), Ticks(45)}

\* one call clock.advance_time(h)
ClockAdvance(h) ==
    /\ clock_cum + h <= Ticks(MaxClockHours)
    /\ LET r == AdvanceTime(clock, h)
       IN /\ clock' = r.time
          /\ clock_call' = [arg |-> h, result |-> r.result]
          /\ clock_cum' = IF r.result = "ValueError" THEN clock_cum ELSE clock_cum + h
    /\ UNCHANGED <<gameVars, unitVars, roomVars>>

ClockNext == \E h \in ClockInputs : ClockAdvance(h)

SpecClock == Init /\ [][ClockNext]_vars

-----------------------------------------------------------------------------
(* Component specification: a Player driven by add/remove calls *)

\* capacity beyond one full resource stack that the larger test Player has
UnitSpare == 2

\* the capacities a Player under test is given (player.max_inventory = n)
UnitCapacities == {2, MAX_INVENTORY_DEFAULT, MAX_RESOURCE_STACK + UnitSpare}

\* the items the calls are made with
UnitItems == {"Thebian Ground Soil", "ID card", "lucky coin"}

\* player.max_inventory = n, on a Player still empty
UnitSetCapacity(n) ==
    /\ unit.inventory = <<>>
    /\ unit_call.op = "None"
    /\ unit' = [unit EXCEPT !.max_inventory = n]
    /\ unit_call' = [op |-> "capacity", item |-> "None", result |-> TRUE]
    /\ UNCHANGED <<gameVars, clockVars, roomVars>>

\* one call unit.add_to_inventory(item)
UnitAdd(item) ==
    /\ unit' = AddToInventory(unit, item)
    /\ unit_call' = [op |-> "add", item |-> item, result |-> CanAdd(unit, item)]
    /\ UNCHANGED <<gameVars, clockVars, roomVars>>

\* one call unit.remove_from_inventory(item)
UnitRemove(item) ==
    /\ unit' = RemoveFromInventory(unit, item)
    /\ unit_call' = [op |-> "remove", item |-> item, result |-> CanRemove(unit, item)]
    /\ UNCHANGED <<gameVars, clockVars, roomVars>>

UnitNext ==
    \/ \E n \in UnitCapacities : UnitSetCapacity(n)
    \/ \E item \in UnitItems \ {"lucky coin"} : UnitAdd(item)
    \/ \E item \in UnitItems : UnitRemove(item)

SpecUnit == Init /\ [][UnitNext]_vars

-----------------------------------------------------------------------------
(* game.py: the Game object and the handlers of the single-verb commands.   *)
(* A command is [word, second, number]: the verb upper-cased, the rest of   *)
(* the line lower-cased ("None" when absent), and the number typed, if any. *)
(* Messages are modelled by their opening words.                            *)

\* the Game a handler works on; finished is handle_action's return value,
\* error marks an exception on its way to handle_action's except clause, and
\* ending names the ending screen that ran (every ending exits the process)
Game ==
    [player |-> player, time |-> time, rooms |-> rooms, current_room |-> current_room,
     mining_attempts |-> mining_attempts, total_donations |-> total_donations,
     debug_mode |-> debug_mode, suppress_next_room_display |-> suppress_next_room_display,
     ending |-> ending, finished |-> FALSE, error |-> FALSE]

\* self.current_room
Here(g) == g.rooms[g.current_room]

\* self.current_room.current_interaction_state
StateOf(g) == Here(g).current_interaction_state

\* self.current_room.add_message(message)
Say(g, message) == [g EXCEPT !.rooms[g.current_room] = AddMessage(@, message)]

\* self.current_room.set_interaction_state(state)
Enter(g, state) == [g EXCEPT !.rooms[g.current_room] = SetInteractionState(@, state)]

\* next(item for item in items if item.name.lower() == name), or "None"
FirstNamed(items, name) ==
    LET hits == {i \in 1..Len(items) : Lower(items[i]) = name}
    IN IF hits = {} THEN "None" ELSE items[CHOOSE i \in hits : \A j \in hits : i <= j]

\* ["take " + item.name for item in items] + ["go back"]
TakeMenu(items) == [i \in 1..Len(items) |-> "take " \o items[i]] \o <<"go back">>

\* a maintenance window that begins an hour late
FacilitiesClosedLate(t) ==
    Ticks(FACILITY_CLOSE_HOUR + 1) <= t.hours /\ t.hours < Ticks(FACILITY_OPEN_HOUR)

\* FACILITY_CLOSE_HOUR <= self.time.hours < FACILITY_OPEN_HOUR
FacilitiesClosed(t) ==
    Ticks(FACILITY_CLOSE_HOUR) <= t.hours /\ t.hours < Ticks(FACILITY_OPEN_HOUR)

\* Game.quit_game
QuitGame(g) == [g EXCEPT !.finished = TRUE]

\* Game.print_help
PrintHelp(g) == Say(g, "Primary Commands:")

\* Game.show_map
ShowMap(g) == [g EXCEPT !.suppress_next_room_display = TRUE]

\* do_go_command: the hooks run on the room about to be entered
EnterHooks(g, next_room) ==
    LET room == g.rooms[next_room]
        stall == "approach Blackest of Markets stall"
        r1 == IF next_room = "Residential Corridor" THEN ResetResidentialCorridor(room)
              ELSE room
        r2 == IF /\ next_room = "Colony Market"
                 /\ stall \notin Range(r1.interaction_states["main"].interactions)
                 /\ ~g.player.bought_blackest_market_card
              THEN LET m1 == AppendInteraction(r1, "main", stall)
                       m2 == IF "blackest_market" \notin DOMAIN m1.interaction_states
                             THEN AddInteractionState(m1, "blackest_market", <<"go back">>, "main")
                             ELSE m1
                   IN IF "blackest_market_sign" \notin DOMAIN m2.interaction_states
                      THEN AddInteractionState(m2, "blackest_market_sign", <<"go back">>, "main")
                      ELSE m2
              ELSE r1
    IN [g EXCEPT !.rooms[next_room] = r2]

\* Game.do_go_command
DoGoCommand(g, destination) ==
    IF /\ g.current_room = "Security Checkpoint (Residential)"
       /\ destination \in {"industrial sector", "industrial plaza"}
    THEN IF HasItem(g.player, "ID card")
         THEN [Say(g, "You scan your ID card. The blast door hisses open")
                   EXCEPT !.current_room = "Residential Checkpoint Gate"]
         ELSE Say(g, "You need your ID card to pass. Creedal shakes his head.")
    ELSE IF /\ g.current_room = "Security Checkpoint (Industrial)"
            /\ destination \in {"residential sector", "central plaza"}
    THEN IF HasItem(g.player, "ID card")
         THEN [Say(g, "You scan your ID card. The gate slides open")
                   EXCEPT !.current_room = "Industrial Checkpoint Gate"]
         ELSE Say(g, "You need your ID card to pass. Weatherbee holds up a hand")
    ELSE IF destination = "None" THEN Say(g, "Go where?")
    ELSE IF /\ g.current_room = "Industrial Plaza"
            /\ destination \in {"refinery", "deposit station"}
            /\ FacilitiesClosed(g.time)
    THEN Say(g, IF destination = "refinery"
                THEN "The Refinery is closed from 15:00-20:00 for standard maintenance."
                ELSE "The Deposit Station is closed from 15:00-20:00 for standard maintenance.")
    ELSE LET next_room == GetExit(Here(g), destination)
         IN IF next_room # "None"
            THEN [EnterHooks(g, next_room) EXCEPT
                      !.current_room = next_room,
                      !.time = AdvanceTime(g.time, HalfHour).time]
            ELSE Say(g, "There is no way to go there!")

\* a take_item that copies: the item stays where it was
TakeItemKeepsTheSource(g, item_name) ==
    IF item_name = "None" THEN Say(g, "Take what?")
    ELSE LET container_items == IF "cupboard" \in DOMAIN Here(g).hidden_items
                                THEN Here(g).hidden_items["cupboard"] ELSE <<>>
             from == IF StateOf(g) = "cupboard" THEN container_items ELSE Here(g).items
             item_to_take == FirstNamed(from, item_name)
         IN IF item_to_take = "None" THEN Say(g, "There is no such item here to take.")
            ELSE IF ~CanAdd(g.player, item_to_take) THEN Say(g, "Your inventory is full.")
            ELSE Say([g EXCEPT !.player = AddToInventory(@, item_to_take)], "You took the item.")

\* Game.take_item
TakeItem(g, item_name) ==
    IF item_name = "None" THEN Say(g, "Take what?")
    ELSE IF StateOf(g) = "cupboard"
    THEN LET container_items == IF "cupboard" \in DOMAIN Here(g).hidden_items
                                THEN Here(g).hidden_items["cupboard"] ELSE <<>>
             item_to_take == FirstNamed(container_items, item_name)
         IN IF item_to_take = "None" THEN Say(g, "There is no such item in the cupboard.")
            ELSE IF ~CanAdd(g.player, item_to_take) THEN Say(g, "Your inventory is full.")
            ELSE LET left == RemoveFirst(container_items, item_to_take)
                     g1 == [g EXCEPT !.player = AddToInventory(@, item_to_take),
                                     !.rooms[g.current_room].hidden_items["cupboard"] = left]
                     g2 == Say(g1, "You took the item.")
                 IN IF left # <<>>
                    THEN [g2 EXCEPT !.rooms[g.current_room] =
                             AddInteractionState(@, "cupboard", TakeMenu(left), "main")]
                    ELSE Enter(Say(g2, "The cupboard is now empty."), "main")
    ELSE LET item_to_take == FirstNamed(Here(g).items, item_name)
         IN IF item_to_take = "None" THEN Say(g, "There is no such item here to take.")
            ELSE IF ~CanAdd(g.player, item_to_take) THEN Say(g, "Your inventory is full.")
            ELSE Say([g EXCEPT !.player = AddToInventory(@, item_to_take),
                               !.rooms[g.current_room] = RemoveItem(@, item_to_take)],
                     "You picked up the item.")

\* a drop_item that lets go of whatever is named, key items too
DropItemAnything(g, item_name) ==
    IF item_name = "None" THEN Say(g, "Drop what?")
    ELSE LET hits == {i \in 1..Len(g.player.inventory) :
                         Lower(g.player.inventory[i]) = Lower(item_name)}
         IN IF hits = {} THEN Say(g, "You don't have that.")
            ELSE Say([g EXCEPT !.player.inventory =
                                   RemoveFirst(@, @[CHOOSE i \in hits : \A j \in hits : i <= j])],
                     "You dropped the item.")

\* Game.drop_item.  It hands Room.add_item the Item object where add_item
\* expects a key of ITEMS; no Item object is a key of ITEMS, so add_item adds
\* neither the item nor a menu entry and the room stays as it was.
DropItem(g, item_name) ==
    IF item_name = "None" THEN Say(g, "Drop what?")
    ELSE LET item_to_drop == GetItemByName(g.player, item_name)
         IN IF item_to_drop = "None" THEN Say(g, "You don't have that.")
            ELSE IF ItemType(item_to_drop) = "KEY_ITEM"
            THEN Say(g, "You should probably hold on to this.")
            ELSE IF CanRemove(g.player, item_to_drop)
            THEN Say([g EXCEPT !.player = RemoveFromInventory(@, item_to_drop)],
                     "You dropped the item.")
            ELSE g

\* Game.show_inventory
ShowInventory(g) ==
    LET g1 == Say(g, "Your inventory")
    IN Enter([g1 EXCEPT !.rooms[g.current_room] =
                  AddInteractionState(@, "inventory", <<"go back">>, "main")],
             "inventory")

\* Game.open_container
OpenContainer(g, container_name) ==
    IF container_name = "None" THEN Say(g, "Open what?")
    ELSE IF container_name # "cupboard" THEN Say(g, "You can't open that.")
    ELSE IF /\ "cupboard" \in DOMAIN Here(g).hidden_items
            /\ "cupboard" \notin Range(Here(g).containers_opened)
    THEN LET g1 == [g EXCEPT !.rooms[g.current_room].containers_opened = Append(@, "cupboard")]
             items_in_cupboard == Here(g).hidden_items["cupboard"]
         IN IF items_in_cupboard # <<>>
            THEN Enter([Say(g1, "The cupboard's contents have made themselves known.")
                           EXCEPT !.rooms[g.current_room] =
                               AddInteractionState(@, "cupboard", TakeMenu(items_in_cupboard),
                                                   "main")],
                       "cupboard")
            ELSE Say(g1, "It's empty.")
    ELSE IF "cupboard" \in Range(Here(g).containers_opened)
    THEN Say(g, "You already opened the cupboard.")
    ELSE Say(g, "There is no cupboard here.")

\* Game.look_at
LookAt(g, target) ==
    IF target = "None" THEN Say(g, "Look at what?")
    ELSE IF target \in {"bulletin board", "at bulletin board"}
    THEN IF g.current_room = "Residential Entrance"
         THEN Say(Enter(g, "bulletin_board"), "You look at the bulletin board.")
         ELSE Say(g, "There is no bulletin board here.")
    ELSE Say(g, "You see nothing special about that.")

\* "part in text" for the texts typed in this model
Contains(text, part) ==
    \/ text = part
    \/ <<text, part>> \in
         {<<"to greyman cecil", "greyman cecil">>,
          <<"to science officer ephsus", "ephsus">>,
          <<"to security officer creedal", "creedal">>,
          <<"to security officer weatherbee", "weatherbee">>,
          <<"to colony foreman long", "colony foreman long">>,
          <<"notice about quota increase", "quota increase">>,
          <<"warning about oxygen generators", "oxygen generators">>,
          <<"recent job listings", "job listings">>,
          <<"an advert for a vendor at the market", "advert for a vendor">>,
          <<"memorial pond plaque", "plaque">>}

\* the completion marker put after an NPC's name
Marked(npc) == npc \o " (done)"

\* Player.talk_to_npc: [state, message], state "None" for no state change
TalkToNpc(p, full_npc_name) ==
    LET Reply(complete, state, who) ==
            IF ~complete THEN [state |-> state, message |-> "You approach " \o who]
            ELSE [state |-> "None", message |-> who \o "'s respect for you is almost palpable."]
    IN IF Contains(full_npc_name, "greyman cecil")
       THEN Reply(p.cecil_quest_complete, "cecil_talk", "Cecil")
       ELSE IF Contains(full_npc_name, "ephsus")
       THEN Reply(p.ephsus_quest_complete, "ephsus_initial", "Ephsus")
       ELSE IF Contains(full_npc_name, "creedal")
       THEN Reply(p.creedal_quest_complete, "creedal_talk", "Creedal")
       ELSE IF Contains(full_npc_name, "weatherbee")
       THEN Reply(p.weatherbee_quest_complete, "weatherbee_talk", "Weatherbee")
       ELSE IF Contains(full_npc_name, "colony foreman long")
       THEN Reply(p.long_quest_complete, "foreman_long_initial", "Long")
       ELSE [state |-> "None", message |-> "You try talking, but don't know where to start."]

\* Game.talk_to
TalkTo(g, npc_name) ==
    IF npc_name = "None" THEN Say(g, "Talk to who?")
    ELSE LET t == TalkToNpc(g.player, npc_name)
             g1 == Say(g, t.message)
             g2 == Enter(g1, t.state)
             congratulate == "congratulations on your new job"
             spirits == "hows your spirits now weatherbee"
         IN IF t.state = "None" THEN g1
            ELSE IF t.state # "weatherbee_talk" THEN g2
            ELSE IF "weatherbee_talk" \notin DOMAIN Here(g2).interaction_states
            THEN [g2 EXCEPT !.error = TRUE]
            ELSE LET i0 == Here(g2).interaction_states["weatherbee_talk"].interactions
                     i1 == RemoveFirst(RemoveFirst(i0, congratulate), spirits)
                     i2 == IF /\ g.player.weatherbee_quest_congratulated
                              /\ ~g.player.weatherbee_quest_complete
                              /\ FacilitiesClosed(g.time)
                           THEN InsertFront(i1, spirits)
                           ELSE IF g.player.weatherbee_quest_read_bulletin
                           THEN InsertFront(i1, congratulate)
                           ELSE i1
                 IN [g2 EXCEPT !.rooms[g.current_room] =
                        SetInteractions(@, "weatherbee_talk", i2)]

\* Game.investigate
Investigate(g, target) ==
    IF target = "None" THEN Say(g, "Investigate what?")
    ELSE IF target = "memorial fountain" /\ g.current_room = "Memorial Pond"
    THEN Enter(g, "memorial_fountain")
    ELSE Say(g, "You're not sure how to investigate that.")

\* Game.check_item
CheckItem(g, item_name) ==
    IF item_name = "None" THEN Say(g, "Check what?")
    ELSE IF item_name = "terminal" /\ g.current_room = "Your Quarters"
    THEN Say(Enter(g, "terminal"), "You access the terminal.")
    ELSE Say(g, "You can't check that here.")

\* Game.read
Read(g, target) ==
    IF target = "None" THEN Say(g, "Read what?")
    ELSE IF StateOf(g) = "bulletin_board"
    THEN IF Contains(target, "quota increase") THEN Say(g, "[NOTICE]")
         ELSE IF Contains(target, "oxygen generators") THEN Say(g, "[WARNING]")
         ELSE IF Contains(target, "job listings")
         THEN [Say(g, "[AD]") EXCEPT !.player.weatherbee_quest_read_bulletin = TRUE]
         ELSE IF Contains(target, "advert for a vendor") THEN Say(g, "ARMEDAS STALL")
         ELSE Say(g, "There is no such notice on the board.")
    ELSE IF Contains(target, "plaque") /\ g.current_room = "Memorial Pond"
    THEN Enter(Say(g, "The plaque is cold to the touch."), "read_plaque")
    ELSE Say(g, "You can't find anything called that to read here.")

\* Game.donate
Donate(g) == Say(g, "Donations are handled via the donation terminal at the Memorial Pond.")

\* a handle_debug_command that never looks at the debug flag
HandleDebugCommandUnlocked(g, argument, value) ==
    IF argument = "None" THEN Say(g, "Usage: debug <command> <args...>")
    ELSE IF argument = "set time"
    THEN Say([g EXCEPT !.time.hours = Ticks(value)], "Debug: Time set")
    ELSE IF argument = "set day"
    THEN Say([g EXCEPT !.time.days = value], "Debug: Day set")
    ELSE IF argument = "set minshin"
    THEN Say([g EXCEPT !.player.minshin = value], "Debug: Minshin set")
    ELSE IF argument = "set quota"
    THEN Say([g EXCEPT !.player.quota_fulfilled = value], "Debug: Quota fulfilled set")
    ELSE IF \E k \in ITEMS : argument = "give " \o Lower(k)
    THEN LET item == CHOOSE k \in ITEMS : argument = "give " \o Lower(k)
         IN IF CanAdd(g.player, item)
            THEN Say([g EXCEPT !.player = AddToInventory(@, item)], "Debug: Gave player the item.")
            ELSE Say(g, "Debug: Player inventory is full.")
    ELSE IF \E r \in RoomNames : argument = "goto " \o Lower(r)
    THEN LET target_room == CHOOSE r \in RoomNames : argument = "goto " \o Lower(r)
         IN Say([g EXCEPT !.current_room = target_room], "Debug: Teleported")
    ELSE Say(g, "Unknown debug command")

\* Game.handle_debug_command; value is the number that ends the command
HandleDebugCommand(g, argument, value) ==
    IF ~g.debug_mode THEN Say(g, "Debug mode is not active.")
    ELSE IF argument = "None" THEN Say(g, "Usage: debug <command> <args...>")
    ELSE IF argument = "set time"
    THEN Say([g EXCEPT !.time.hours = Ticks(value)], "Debug: Time set")
    ELSE IF argument = "set day"
    THEN Say([g EXCEPT !.time.days = value], "Debug: Day set")
    ELSE IF argument = "set minshin"
    THEN Say([g EXCEPT !.player.minshin = value], "Debug: Minshin set")
    ELSE IF argument = "set quota"
    THEN Say([g EXCEPT !.player.quota_fulfilled = value], "Debug: Quota fulfilled set")
    ELSE IF \E k \in ITEMS : argument = "give " \o Lower(k)
    THEN LET item == CHOOSE k \in ITEMS : argument = "give " \o Lower(k)
         IN IF CanAdd(g.player, item)
            THEN Say([g EXCEPT !.player = AddToInventory(@, item)], "Debug: Gave player the item.")
            ELSE Say(g, "Debug: Player inventory is full.")
    ELSE IF \E r \in RoomNames : argument = "goto " \o Lower(r)
    THEN LET target_room == CHOOSE r \in RoomNames : argument = "goto " \o Lower(r)
         IN Say([g EXCEPT !.current_room = target_room], "Debug: Teleported")
    ELSE Say(g, "Unknown debug command")

-----------------------------------------------------------------------------
(* game_interactions.py: quests, purchases, donations, mining, deposits *)

\* the first entry naming the NPC, marked or not, gets the completion marker
MarkNpc(npcs, npc_name) ==
    LET hits == {i \in 1..Len(npcs) : npcs[i] \in {npc_name, Marked(npc_name)}}
    IN IF hits = {} THEN npcs
       ELSE [npcs EXCEPT ![CHOOSE i \in hits : \A j \in hits : i <= j] = Marked(npc_name)]

\* a _complete_quest that never looks whether this was the last quest
CompleteQuestNoEnding(g, quest_flag_name, npc_name, npc_room, item_to_remove) ==
    LET p1 == IF item_to_remove # "None" THEN RemoveFromInventory(g.player, item_to_remove)
              ELSE g.player
    IN Enter([g EXCEPT !.player = [p1 EXCEPT ![quest_flag_name] = TRUE],
                       !.rooms[npc_room].npcs = MarkNpc(@, npc_name)],
             "main")

\* GameInteractions._complete_quest
CompleteQuest(g, quest_flag_name, npc_name, npc_room, item_to_remove) ==
    LET p1 == IF item_to_remove # "None" THEN RemoveFromInventory(g.player, item_to_remove)
              ELSE g.player
        g1 == [g EXCEPT !.player = [p1 EXCEPT ![quest_flag_name] = TRUE],
                        !.rooms[npc_room].npcs = MarkNpc(@, npc_name)]
    IN IF AllQuestsComplete(g1.player) THEN [g1 EXCEPT !.ending = "good"]
       ELSE Enter(g1, "main")

\* GameInteractions._handle_cecil_coin_quest
HandleCecilCoinQuest(g) ==
    IF StateOf(g) # "cecil_quest_prompt" THEN Say(g, "That doesn't make sense right now.")
    ELSE IF ~HasItem(g.player, "lucky coin") THEN Say(g, "You don't have the lucky coin to offer.")
    ELSE CompleteQuest(g, "cecil_quest_complete", "Greyman Cecil", "Residential Corridor",
                       "lucky coin")

\* GameInteractions._handle_ephsus_soil_quest
HandleEphsusSoilQuest(g) ==
    LET soil_count == Count(g.player.inventory, "Thebian Ground Soil")
        needed == SOIL_SAMPLES_REQUIRED - g.player.ephsus_soil_given
        gave_count == IF soil_count < needed THEN soil_count ELSE needed
        Kept(i) == Cardinality({j \in 1..i : g.player.inventory[j] = "Thebian Ground Soil"})
                       > gave_count
        left == {i \in 1..Len(g.player.inventory) :
                    g.player.inventory[i] # "Thebian Ground Soil" \/ Kept(i)}
        Nth(k) == CHOOSE i \in left : Cardinality({j \in left : j <= i}) = k
        g1 == [g EXCEPT
                 !.player.inventory = [k \in 1..Cardinality(left) |-> g.player.inventory[Nth(k)]],
                 !.player.ephsus_soil_given = @ + gave_count]
    IN IF StateOf(g) # "ephsus_quest_prompt" THEN Say(g, "That doesn't make sense right now.")
       ELSE IF soil_count = 0 THEN Say(g, "You have no Thebian Ground Soil in your inventory.")
       ELSE IF g1.player.ephsus_soil_given >= SOIL_SAMPLES_REQUIRED
       THEN CompleteQuest(g1, "ephsus_quest_complete", "Science Officer Ephsus",
                          "Central Plaza", "None")
       ELSE Say(g1, "You gave Ephsus Thebian Ground Soil samples.")

\* GameInteractions._handle_creedal_food_quest
HandleCreedalFoodQuest(g) ==
    IF StateOf(g) # "creedal_quest_prompt" THEN Say(g, "That doesn't make sense right now.")
    ELSE IF ~HasItem(g.player, "Steamed Buns") THEN Say(g, "You don't have Steamed Buns to offer.")
    ELSE CompleteQuest(g, "creedal_quest_complete", "Security Officer Creedal",
                       g.current_room, "Steamed Buns")

\* GameInteractions._handle_weatherbee_spirits_quest
HandleWeatherbeeSpiritsQuest(g) ==
    IF StateOf(g) # "weatherbee_spirits_prompt"
    THEN Say(g, "That doesn't make sense right now.")
    ELSE CompleteQuest(g, "weatherbee_quest_complete", "Security Officer Weatherbee",
                       "Security Checkpoint (Industrial)", "None")

\* GameInteractions._handle_buy_comms_tower_card
HandleBuyCommsTowerCard(g) ==
    LET stall == "approach Blackest of Markets stall"
    IN IF StateOf(g) # "blackest_market"
       THEN Say(g, "You can only do this at the Blackest of Markets stall.")
       ELSE IF g.player.bought_blackest_market_card THEN Say(g, "The shadowy figure is gone.")
       ELSE IF g.player.minshin < BLACK_MARKET_ID_PRICE THEN Say(g, "You don't have enough Minshin.")
       ELSE IF IsInventoryFull(g.player) THEN Say(g, "Your inventory is full.")
       ELSE LET p1 == AddToInventory([g.player EXCEPT !.minshin = @ - BLACK_MARKET_ID_PRICE],
                                     "Communications Tower ID Card")
                g1 == Say([g EXCEPT !.player = [p1 EXCEPT !.bought_blackest_market_card = TRUE]],
                          "You slide the Minshin across.")
            IN IF stall \notin Range(g1.rooms["Colony Market"].interaction_states["main"].interactions)
               THEN [g1 EXCEPT !.error = TRUE]
               ELSE Enter([g1 EXCEPT !.rooms["Colony Market"] =
                              SetInteractions(@, "main",
                                  RemoveFirst(@.interaction_states["main"].interactions, stall))],
                          "main")

\* a check_for_foreman_spawn that looks for the unmarked name only
CheckForForemanSpawnUnmarked(g) ==
    IF /\ g.total_donations >= FOREMAN_SPAWN_DONATION_THRESHOLD
       /\ "Colony Foreman Long" \notin Range(g.rooms["Memorial Pond"].npcs)
    THEN [g EXCEPT !.rooms["Memorial Pond"] =
             AddMessage([@ EXCEPT !.npcs = Append(@, "Colony Foreman Long")],
                        "A man has appeared by the pond.")]
    ELSE g

\* Game.check_for_foreman_spawn
CheckForForemanSpawn(g) ==
    LET foreman_exists == \E i \in 1..Len(g.rooms["Memorial Pond"].npcs) :
            g.rooms["Memorial Pond"].npcs[i] \in
                {"Colony Foreman Long", Marked("Colony Foreman Long")}
    IN IF g.total_donations >= FOREMAN_SPAWN_DONATION_THRESHOLD /\ ~foreman_exists
       THEN [g EXCEPT !.rooms["Memorial Pond"] =
                AddMessage(AddNpc(@, "Colony Foreman Long"), "A man has appeared by the pond.")]
       ELSE g

\* a handle_donation that never looks into the purse
HandleDonationOnCredit(g, c) ==
    IF c.word # "DIGITS" \/ c.number < MINIMUM_DONATION
    THEN Say(g, "Please enter a valid number or type 'go back'.")
    ELSE Enter([g EXCEPT !.player.minshin = @ - c.number,
                         !.total_donations = @ + c.number],
               "main")

\* GameInteractions.handle_donation; c is the command typed in the donating state
HandleDonation(g, c) ==
    IF c.word = "GO" /\ c.second = "back"
    THEN Say(Enter(g, "main"), "You step back from the donation bucket.")
    ELSE IF c.word # "DIGITS" THEN Say(g, "Please enter a valid number or type 'go back'.")
    ELSE IF c.number < MINIMUM_DONATION THEN Say(g, "You must donate at least 10 Minshin.")
    ELSE IF c.number > g.player.minshin THEN Say(g, "You don't have enough Minshin.")
    ELSE CheckForForemanSpawn(
             Enter(Say([g EXCEPT !.player.minshin = @ - c.number,
                                 !.total_donations = @ + c.number],
                       "You donated Minshin."),
                   "main"))

\* for msg in messages: self.current_room.add_message(msg)
RECURSIVE SayAll(_, _)
SayAll(g, messages) ==
    IF messages = <<>> THEN g ELSE SayAll(Say(g, Head(messages)), Tail(messages))

\* the loop of mine_away: attempts left to make, one roll of the dice for each
\* ([find, skeleton]: the resource drawn, and whether the skeleton draw succeeds)
RECURSIVE MineAttempts(_, _, _, _)
MineAttempts(g, rolls, left, mined_items) ==
    IF left = 0 THEN SayAll(g, mined_items)
    ELSE LET g1 == [g EXCEPT !.mining_attempts = @ + 1]
             roll == Head(rolls)
         IN IF /\ g1.mining_attempts >= SKELETON_DISCOVERY_THRESHOLD
               /\ roll.skeleton
               /\ ~g1.player.has_found_skeleton
            THEN [g1 EXCEPT !.player.has_found_skeleton = TRUE, !.ending = "skeleton"]
            ELSE IF IsInventoryFull(g1.player)
            THEN SayAll(g1, Append(mined_items, "Your inventory is now full."))
            ELSE IF CanAdd(g1.player, roll.find)
            THEN MineAttempts([g1 EXCEPT !.player = AddToInventory(@, roll.find)],
                              Tail(rolls), left - 1, Append(mined_items, "You have mined:"))
            ELSE MineAttempts(g1, Tail(rolls), left - 1,
                              Append(mined_items, "Could not add, inventory is now full."))

\* GameInteractions.mine_away
MineAway(g, rolls) ==
    IF g.time.hours >= Ticks(FACILITY_CLOSE_HOUR) THEN Say(g, "The mines are closed.")
    ELSE IF ~HasItem(g.player, "mining gun") THEN Say(g, "You need a mining gun to mine.")
    ELSE IF IsInventoryFull(g.player) THEN Say(g, "Your inventory is full.")
    ELSE MineAttempts([g EXCEPT !.time = AdvanceTime(g.time, HalfHour).time], rolls,
                      IF g.player.bought_mining_gun_upgrade THEN 3 ELSE 1, <<>>)

\* a deposit_resources that counts a cluster as one crystal
DepositResourcesCountsEntries(g) ==
    LET amount == Count(g.player.inventory, "Ambrosium Crystal")
                  + Count(g.player.inventory, "Ambrosium Cluster")
        Other(item) == item \notin {"Ambrosium Crystal", "Ambrosium Cluster"}
    IN IF amount = 0 THEN Say(g, "You have no Ambrosium to deposit.")
       ELSE [g EXCEPT !.time = AdvanceTime(g.time, HalfHour).time,
                      !.player.quota_fulfilled = @ + amount,
                      !.player.quota_celebration_shown =
                          @ \/ g.player.quota_fulfilled + amount >= g.player.ambrosium_quota,
                      !.player.inventory = Filter(@, Other)]

\* GameInteractions.deposit_resources
DepositResources(g) ==
    LET crystals == Count(g.player.inventory, "Ambrosium Crystal")
        clusters == Count(g.player.inventory, "Ambrosium Cluster")
        amount == crystals + clusters * AMBROSIUM_CLUSTER_VALUE
        is_post_quota == g.player.quota_fulfilled >= g.player.ambrosium_quota
        Other(item) == item \notin {"Ambrosium Crystal", "Ambrosium Cluster"}
        g1 == [g EXCEPT
                 !.time = AdvanceTime(g.time, HalfHour).time,
                 !.suppress_next_room_display = TRUE,
                 !.player.minshin =
                     IF is_post_quota THEN @ + amount * MINSHIN_PER_AMBROSIUM_POST_QUOTA ELSE @,
                 !.player.quota_fulfilled = @ + amount,
                 !.player.inventory = Filter(@, Other)]
    IN IF crystals + clusters = 0 THEN Say(g, "You have no Ambrosium to deposit.")
       ELSE IF g1.player.quota_fulfilled >= g1.player.ambrosium_quota /\ ~is_post_quota
       THEN Say([g1 EXCEPT !.suppress_next_room_display = FALSE,
                           !.player.quota_celebration_shown = TRUE],
                "A confirmation chime echoes from the deposit station.")
       ELSE g1

\* the materials the refinery pays for, and their rates
MinshinRates ==
    [n \in {"Thebian Ground Soil", "Clagnum Putty", "Matterstone Ore"} |->
        CASE n = "Thebian Ground Soil" -> SOIL_SELL_PRICE
          [] n = "Clagnum Putty" -> CLAGNUM_SELL_PRICE
          [] n = "Matterstone Ore" -> MATTERSTONE_SELL_PRICE]

\* a rebuilding loop that keeps every item
RebuildInventoryKeepsAll(rest, inventory_counts, item_name) == rest

\* deposit_non_ambrosium, the rebuilding loop: an item is kept while its counter
\* is positive, and each kept item decrements the counter of item_name, the
\* variable the earlier loop over the deposited names left behind
RECURSIVE RebuildInventory(_, _, _)
RebuildInventory(rest, inventory_counts, item_name) ==
    IF rest = <<>> THEN <<>>
    ELSE IF inventory_counts[Head(rest)] > 0
    THEN <<Head(rest)>> \o
         RebuildInventory(Tail(rest), [inventory_counts EXCEPT ![item_name] = @ - 1], item_name)
    ELSE RebuildInventory(Tail(rest), inventory_counts, item_name)

\* GameInteractions.deposit_non_ambrosium
DepositNonAmbrosium(g) ==
    LET inventory == g.player.inventory
        Paid(item) == item \in DOMAIN MinshinRates
        items_to_deposit == Filter(inventory, Paid)
        item_counts == [n \in Range(items_to_deposit) |-> Count(items_to_deposit, n)]
        \* the last key of item_counts: the name whose first occurrence comes last
        item_name == CHOOSE n \in DOMAIN item_counts :
                        \A m \in DOMAIN item_counts :
                            IndexOf(items_to_deposit, m) <= IndexOf(items_to_deposit, n)
        inventory_counts == [n \in Range(inventory) |->
                                IF n \in DOMAIN item_counts
                                THEN Count(inventory, n) - item_counts[n]
                                ELSE Count(inventory, n)]
        total_earnings == Len(Filter(inventory, LAMBDA i : i = "Thebian Ground Soil")) * SOIL_SELL_PRICE
                        + Len(Filter(inventory, LAMBDA i : i = "Clagnum Putty")) * CLAGNUM_SELL_PRICE
                        + Len(Filter(inventory, LAMBDA i : i = "Matterstone Ore")) * MATTERSTONE_SELL_PRICE
    IN IF items_to_deposit = <<>> THEN Say(g, "You have no non-Ambrosium materials to deposit.")
       ELSE [g EXCEPT
               !.time = AdvanceTime(g.time, HalfHour).time,
               !.suppress_next_room_display = TRUE,
               !.player.inventory = RebuildInventory(inventory, inventory_counts, item_name),
               !.player.minshin = @ + total_earnings]

\* GameInteractions.handle_market_stall
HandleMarketStall(g) ==
    LET p == g.player
        g1 == Enter(g, "market_stall")
        Offer(bought, label, price) == IF bought THEN label \o " -bought-"
                                       ELSE "buy " \o label \o price
        interactions ==
            <<Offer(p.bought_xl_backpack, "Olympus XL Backpack", " (500 Minshin)"),
              Offer(p.bought_steamed_buns, "Steamed Buns", " (150 Minshin)"),
              Offer(p.bought_mining_gun_upgrade, "Heavy Beam Mining Gun Upgrade",
                    " (1500 Minshin)"),
              "go back">>
        Stock(gm, menu) ==
            IF "market_stall" \notin DOMAIN Here(gm).interaction_states
            THEN [gm EXCEPT !.error = TRUE]
            ELSE [gm EXCEPT !.rooms[g.current_room] = SetInteractions(@, "market_stall", menu)]
    IN IF p.bought_xl_backpack /\ p.bought_steamed_buns /\ p.bought_mining_gun_upgrade
       THEN Stock(Say(g1, "You have run me dry"), <<"go back">>)
       ELSE Stock(Say(g1, "ah hello there. take a gander at my goods?"), interactions)

\* a buy_market_item that takes the price of the buns and hands over nothing
BuyMarketItemTakesTheMoney(g, item_key) ==
    IF StateOf(g) # "market_stall" THEN Say(g, "You need to be at the stall to buy things.")
    ELSE IF g.player.minshin < STEAMED_BUNS_PRICE
    THEN Say(g, "You don't have enough Minshin for that.")
    ELSE [g EXCEPT !.player.minshin = @ - STEAMED_BUNS_PRICE]

\* GameInteractions.buy_market_item
BuyMarketItem(g, item_key) ==
    LET p == g.player
    IN IF StateOf(g) # "market_stall" THEN Say(g, "You need to be at the stall to buy things.")
       ELSE IF item_key = "backpack"
       THEN IF p.bought_xl_backpack THEN Say(g, "You already bought the backpack.")
            ELSE IF p.minshin < BACKPACK_PRICE THEN Say(g, "You don't have enough Minshin for that.")
            ELSE HandleMarketStall(
                     Say([g EXCEPT !.player.minshin = @ - BACKPACK_PRICE,
                                   !.player.max_inventory = MAX_INVENTORY_UPGRADED,
                                   !.player.bought_xl_backpack = TRUE],
                         "Your inventory space has increased"))
       ELSE IF item_key = "buns"
       THEN IF p.bought_steamed_buns THEN Say(g, "You already bought the steamed buns.")
            ELSE IF p.minshin < STEAMED_BUNS_PRICE
            THEN Say(g, "You don't have enough Minshin for that.")
            ELSE IF IsInventoryFull(p) THEN Say(g, "Your inventory is full.")
            ELSE HandleMarketStall(
                     Say([g EXCEPT !.player =
                             [AddToInventory([p EXCEPT !.minshin = @ - STEAMED_BUNS_PRICE],
                                             "Steamed Buns")
                                 EXCEPT !.bought_steamed_buns = TRUE]],
                         "You bought the Steamed Buns."))
       ELSE IF p.bought_mining_gun_upgrade THEN Say(g, "You already bought the mining gun upgrade.")
            ELSE IF p.minshin < MINING_UPGRADE_PRICE
            THEN Say(g, "You don't have enough Minshin for that.")
            ELSE HandleMarketStall(
                     Say([g EXCEPT !.player.minshin = @ - MINING_UPGRADE_PRICE,
                                   !.player.bought_mining_gun_upgrade = TRUE],
                         "You bought the Heavy Beam Mining Gun Upgrade."))

\* GameInteractions.visit_hinter
VisitHinter(g) == Say(Enter(g, "hinter_prophecies"), "An old woman sits in a dimly lit corner")

\* GameInteractions.handle_hinter_prophecy
HandleHinterProphecy(g) ==
    IF StateOf(g) # "hinter_prophecies" THEN Say(g, "That doesn't make sense right now.")
    ELSE IF g.player.minshin < PROPHECY_COST THEN Say(g, "You do not have enough Minshin.")
    ELSE IF AllQuestsComplete(g.player)
    THEN Say(g, "The threads of fate are clear to you now. Your Minshin is returned.")
    ELSE Say([g EXCEPT !.player.minshin = @ - PROPHECY_COST], "Hinter takes your Minshin")

-----------------------------------------------------------------------------
(* game.py: the handlers of the full-phrase commands *)

\* the reply of a dialogue handler outside the state it belongs to
InState(g, state, then) ==
    IF StateOf(g) = state THEN then ELSE Say(g, "That doesn't make sense right now.")

\* Game._handle_donate_minshin
HandleDonateMinshin(g) ==
    Enter(Say(Say(g, "Donations Received"), "Make a custom donation."), "donating")

\* the deposit prompts of _handle_deposit_resources and
\* _handle_deposit_non_ambrosium_materials
DepositPrompt(g, room_name, state) ==
    IF g.current_room = room_name
    THEN Enter([Say(g, "You'll need to use your ID card.") EXCEPT !.rooms[g.current_room] =
                   AddInteractionState(@, state, <<"insert ID card", "go back">>, "main")],
               state)
    ELSE Say(g, "You can only deposit that at its station.")

\* Game._handle_deposit_resources
HandleDepositResources(g) == DepositPrompt(g, "Deposit Station", "deposit_prompt")

\* Game._handle_deposit_non_ambrosium_materials
HandleDepositNonAmbrosiumMaterials(g) == DepositPrompt(g, "Refinery", "refinery_prompt")

\* Game._handle_check_weekly_quota, Game._handle_check_news
HandleCheckTerminal(g, report) ==
    IF StateOf(g) = "terminal" THEN Say(g, report) ELSE Say(g, "You need to be at the terminal.")

\* Game._handle_personal_information
HandlePersonalInformation(g) ==
    IF StateOf(g) = "terminal"
    THEN Say(Enter(g, "personal_info"), "Please insert your ID card to view personal information.")
    ELSE Say(g, "You need to be at the terminal.")

\* Game._handle_ask_about_cecil
HandleAskAboutCecil(g) ==
    InState(g, "cecil_talk", Enter(Say(g, "Cecil is a Clagnum Miner"), "cecil_info"))

\* Game._handle_ask_cecil_alright
HandleAskCecilAlright(g) ==
    InState(g, "cecil_talk", Enter(Say(g, "Cecil brandishes a weak smile"), "cecil_alright"))

\* the quest prompt opened with the offer put first when the item is held
OfferPrompt(g, state, item, offer) ==
    LET g1 == Enter(g, state)
    IN IF HasItem(g.player, item)
       THEN [g1 EXCEPT !.rooms[g.current_room].interaction_states[state].interactions =
                InsertFront(@, offer)]
       ELSE g1

\* Game._handle_ask_cecil_sure_alright
HandleAskCecilSureAlright(g) ==
    InState(g, "cecil_alright",
            OfferPrompt(Say(g, "I lost my lucky coin in the industrial sector."),
                        "cecil_quest_prompt", "lucky coin", "offer lucky coin"))

\* Game._handle_ask_ephsus_ground_soil
HandleAskEphsusGroundSoil(g) ==
    InState(g, "ephsus_initial", Say(g, "Thebian ground soil is packed with an extensive foundation."))

\* Game._handle_ask_ephsus_contemplating
HandleAskEphsusContemplating(g) ==
    InState(g, "ephsus_initial",
            IF ~g.player.ephsus_quest_complete
            THEN Enter(Say(g, "I need 10 samples of ground soil"), "ephsus_quest_prompt")
            ELSE Say(g, "Thanks to you, my audit is going smoothly!"))

\* Game._handle_ask_creedal_industrial
HandleAskCreedalIndustrial(g) == InState(g, "creedal_talk", Say(g, "Just the usual grind."))

\* Game._handle_ask_weatherbee_residential
HandleAskWeatherbeeResidential(g) ==
    InState(g, "weatherbee_talk", Say(g, "It's quiet. Too quiet."))

\* Game._handle_talk_foreman_long
HandleTalkForemanLong(g) ==
    IF g.current_room = "Memorial Pond" /\ ~g.player.long_quest_complete
    THEN LET npcs == g.rooms["Memorial Pond"].npcs
             npc_index == IndexOf(npcs, "Colony Foreman Long")
             g1 == [g EXCEPT !.player.long_quest_complete = TRUE,
                             !.rooms["Memorial Pond"].npcs =
                                 IF npc_index = 0 THEN @
                                 ELSE [@ EXCEPT ![npc_index] = Marked("Colony Foreman Long")]]
         IN IF AllQuestsComplete(g1.player) THEN [g1 EXCEPT !.ending = "good"]
            ELSE Enter(g1, "main")
    ELSE TalkTo(g, "colony foreman long")

\* Game._handle_go_back
HandleGoBack(g) == Say(Enter(g, GetParentState(Here(g))), "You step back.")

\* Game._handle_debug_mode
HandleDebugMode(g) == Say([g EXCEPT !.debug_mode = ~@], "Debug mode is now toggled.")

\* Game._handle_ask_why_creedal_is_drooling
HandleAskWhyCreedalIsDrooling(g) ==
    InState(g, "creedal_talk",
            OfferPrompt(Say(g, "I'm just so hungry"), "creedal_quest_prompt",
                        "Steamed Buns", "offer steamed buns"))

\* Game._handle_stay_strong_creed
HandleStayStrongCreed(g) == InState(g, "creedal_quest_prompt", Say(g, "He said yeah"))

\* Game._handle_congratulations_on_new_job
HandleCongratulationsOnNewJob(g) ==
    IF /\ g.current_room = "Security Checkpoint (Industrial)"
       /\ g.player.weatherbee_quest_read_bulletin
    THEN IF ~g.player.weatherbee_quest_congratulated
         THEN [Say(g, "Weatherbee became giddy with the congratulations.")
                  EXCEPT !.player.weatherbee_quest_congratulated = TRUE]
         ELSE Say(g, "Thank you again!")
    ELSE Say(g, "That doesn't make sense right now.")

\* a _handle_hows_your_spirits_now_weatherbee that asks at any hour
HandleHowsYourSpiritsAnyHour(g) ==
    IF /\ g.current_room = "Security Checkpoint (Industrial)"
       /\ g.player.weatherbee_quest_congratulated
       /\ ~g.player.weatherbee_quest_complete
    THEN Enter(Say(g, "Not good. Some support would be good here."), "weatherbee_spirits_prompt")
    ELSE Say(g, "That doesn't make sense right now. Maybe ask him later?")

\* Game._handle_hows_your_spirits_now_weatherbee
HandleHowsYourSpiritsNowWeatherbee(g) ==
    IF /\ g.current_room = "Security Checkpoint (Industrial)"
       /\ g.player.weatherbee_quest_congratulated
       /\ ~g.player.weatherbee_quest_complete
       /\ FacilitiesClosed(g.time)
    THEN Enter(Say(g, "Not good. Some support would be good here."), "weatherbee_spirits_prompt")
    ELSE Say(g, "That doesn't make sense right now. Maybe ask him later?")

\* Game._handle_approach_comms_tower_terminal, in the Communications Tower Entrance
HandleApproachCommsTowerTerminal(g) ==
    LET interactions == IF HasItem(g.player, "Communications Tower ID Card")
                        THEN <<"insert ID card", "insert Communications Tower ID Card", "go back">>
                        ELSE <<"insert ID card", "go back">>
    IN Say([Enter(g, "approaching_terminal") EXCEPT !.rooms[g.current_room] =
                SetInteractions(@, "approaching_terminal", interactions)],
           "The terminal's green text prompts you to enter your ID card")

\* Game._handle_insert_id_card_comms_tower, in the Communications Tower Entrance
HandleInsertIdCardCommsTower(g) ==
    IF ~HasItem(g.player, "ID card") THEN Say(g, "You have no ID card to insert")
    ELSE Say(g, "The terminal blinked and displayed: 'Access Denied'.")

\* Game._handle_insert_comms_tower_id_card, in the Communications Tower Entrance
HandleInsertCommsTowerIdCard(g) ==
    IF ~HasItem(g.player, "Communications Tower ID Card")
    THEN Say(g, "You have no Communications Tower ID Card to insert")
    ELSE Enter([g EXCEPT !.player = RemoveFromInventory(@, "Communications Tower ID Card")],
               "main")

\* Game._handle_approach_blackest_market, once past the room check
HandleApproachBlackestMarket(g) ==
    IF g.time.days >= 1
    THEN [Say(Enter(g, "blackest_market"), "A shadowy figure beckons you closer.")
             EXCEPT !.rooms[g.current_room] =
                 SetInteractions(@, "blackest_market",
                     <<"buy Communications Tower ID Card (4000 Minshin)", "go back">>)]
    ELSE Say(Enter(g, "blackest_market_sign"), "The stall is closed")

\* Game.insert_item
InsertItem(g, item_name) ==
    IF item_name = "None" THEN Say(g, "Insert what?")
    ELSE IF item_name # "id card" THEN Say(g, "You can't insert that.")
    ELSE IF ~HasItem(g.player, "ID card") THEN Say(g, "You don't have an ID card.")
    ELSE IF StateOf(g) = "personal_info"
    THEN Say(Enter(g, "viewing_info"), "Accessing Personnel File...")
    ELSE IF StateOf(g) = "deposit_prompt" THEN Enter(DepositResources(g), "main")
    ELSE IF StateOf(g) = "refinery_prompt" THEN Enter(DepositNonAmbrosium(g), "main")
    ELSE Say(g, "There's nowhere to insert that here.")

-----------------------------------------------------------------------------
(* game.py: command dispatch and the game loop *)

\* a handler ran, or none did: what handle_full_phrase_commands returns
Handled(g) == [handled |-> TRUE, g |-> g]
Unhandled(g) == [handled |-> FALSE, g |-> g]

\* room-bound handlers that return True in every room
OnlyInAnywhere(g, room_name, then) ==
    IF g.current_room = room_name THEN Handled(then) ELSE Handled(g)

\* the handlers that only answer in their own room, and return False elsewhere
OnlyIn(g, room_name, then) == IF g.current_room = room_name THEN Handled(then) ELSE Unhandled(g)

\* full_command_text, written as the verb and the lower-cased rest
FullCommandText(c) == IF c.second = "None" THEN c.word ELSE c.word \o " " \o c.second

\* Game.handle_full_phrase_commands: the two tables of Game.__init__
HandleFullPhraseCommands(g, c, rolls) ==
    LET text == FullCommandText(c)
    IN CASE text = "MINE away" -> Handled(MineAway(g, rolls))
         [] text = "DONATE minshin into donation terminal" -> Handled(HandleDonateMinshin(g))
         [] text = "DEPOSIT resources" -> Handled(HandleDepositResources(g))
         [] text = "DEPOSIT non-ambrosium materials" ->
                Handled(HandleDepositNonAmbrosiumMaterials(g))
         [] text = "CHECK weekly quota" -> Handled(HandleCheckTerminal(g, "Current Quota"))
         [] text = "CHECK news" -> Handled(HandleCheckTerminal(g, "Terminal News Feed"))
         [] text = "PERSONAL information" -> Handled(HandlePersonalInformation(g))
         [] text = "WHO is this man and why is covered in grey dust" ->
                Handled(HandleAskAboutCecil(g))
         [] text = "SAY \"you alright cecil\"" -> Handled(HandleAskCecilAlright(g))
         [] text = "ARE you sure you alright?" -> Handled(HandleAskCecilSureAlright(g))
         [] text = "OFFER lucky coin" -> Handled(HandleCecilCoinQuest(g))
         [] text = "ASK about thebian ground soil" -> Handled(HandleAskEphsusGroundSoil(g))
         [] text = "ASK why looks like she's contemplating" ->
                Handled(HandleAskEphsusContemplating(g))
         [] text = "OFFER thebian ground soil" -> Handled(HandleEphsusSoilQuest(g))
         [] text = "ASK about the industrial sector" -> Handled(HandleAskCreedalIndustrial(g))
         [] text = "ASK about the residential sector" ->
                Handled(HandleAskWeatherbeeResidential(g))
         [] text = "TALK to colony foreman long" -> Handled(HandleTalkForemanLong(g))
         [] text \in {"GO back", "LEAVE", "STEP away", "STEP away from bulletin board",
                      "GO back to plaza", "REMOVE id card and go back"} ->
                Handled(HandleGoBack(g))
         [] text = "DEBUGMODE" -> Handled(HandleDebugMode(g))
         [] text = "VISIT hinter's prophecies" -> Handled(VisitHinter(g))
         [] text = "WHAT should i pay my attention to? (50 minshin)" ->
                Handled(HandleHinterProphecy(g))
         [] text = "APPROACH merchant armedas stall" -> Handled(HandleMarketStall(g))
         [] text = "ASK why creedal is drooling" -> Handled(HandleAskWhyCreedalIsDrooling(g))
         [] text = "STAY strong creed" -> Handled(HandleStayStrongCreed(g))
         [] text = "OFFER steamed buns" -> Handled(HandleCreedalFoodQuest(g))
         [] text = "CONGRATULATIONS on your new job" ->
                Handled(HandleCongratulationsOnNewJob(g))
         [] text = "HOWS your spirits now weatherbee" ->
                Handled(HandleHowsYourSpiritsNowWeatherbee(g))
         [] text = "GIVE weatherbee a high five" -> Handled(HandleWeatherbeeSpiritsQuest(g))
         [] text = "APPROACH terminal" ->
                OnlyIn(g, "Communications Tower Entrance", HandleApproachCommsTowerTerminal(g))
         [] text = "INSERT id card" ->
                OnlyIn(g, "Communications Tower Entrance", HandleInsertIdCardCommsTower(g))
         [] text = "INSERT communications tower id card" ->
                OnlyIn(g, "Communications Tower Entrance", HandleInsertCommsTowerIdCard(g))
         [] text = "APPROACH blackest of markets stall" ->
                IF g.player.bought_blackest_market_card
                THEN Handled(Say(g, "The dark alley where the stall once stood is empty."))
                ELSE OnlyIn(g, "Colony Market", HandleApproachBlackestMarket(g))
         [] text = "BUY communications tower id card (4000 minshin)" ->
                Handled(HandleBuyCommsTowerCard(g))
         [] text = "VIEW 'how to mine' handbook" ->
                OnlyIn(g, "Mine Entrance", Say(g, "Rule number 1."))
         [] text = "VIEW 'refinery for dummies' handbook" ->
                OnlyIn(g, "Refinery", Say(g, "The refinery is for NON-AMBROSIUM materials only."))
         [] text = "VIEW 'depositing 101' handbook" ->
                OnlyIn(g, "Deposit Station", Say(g, "Just insert your ID card"))
         [] text = "BUY olympus xl backpack (500 minshin)" -> Handled(BuyMarketItem(g, "backpack"))
         [] text = "BUY steamed buns (150 minshin)" -> Handled(BuyMarketItem(g, "buns"))
         [] text = "BUY heavy beam mining gun upgrade (1500 minshin)" ->
                Handled(BuyMarketItem(g, "gun"))
         [] OTHER -> Unhandled(g)

\* the keys of Game._full_phrase_command_handlers
FullPhraseKeys ==
    {"MINE away", "DONATE minshin into donation terminal", "DEPOSIT resources",
     "DEPOSIT non-ambrosium materials", "CHECK weekly quota", "CHECK news",
     "PERSONAL information", "WHO is this man and why is covered in grey dust",
     "SAY \"you alright cecil\"", "ARE you sure you alright?", "OFFER lucky coin",
     "ASK about thebian ground soil", "ASK why looks like she's contemplating",
     "OFFER thebian ground soil", "ASK about the industrial sector",
     "ASK about the residential sector", "TALK to colony foreman long",
     "GO back", "LEAVE", "STEP away", "STEP away from bulletin board", "GO back to plaza",
     "REMOVE id card and go back", "DEBUGMODE", "VISIT hinter's prophecies",
     "WHAT should i pay my attention to? (50 minshin)", "APPROACH merchant armedas stall",
     "ASK why creedal is drooling", "STAY strong creed", "OFFER steamed buns",
     "CONGRATULATIONS on your new job", "HOWS your spirits now weatherbee",
     "GIVE weatherbee a high five", "APPROACH terminal", "INSERT id card",
     "INSERT communications tower id card", "APPROACH blackest of markets stall",
     "BUY communications tower id card (4000 minshin)", "VIEW 'how to mine' handbook",
     "VIEW 'refinery for dummies' handbook", "VIEW 'depositing 101' handbook"}

\* the keys of Game._prefix_command_handlers
PrefixKeys ==
    {"BUY olympus xl backpack (500 minshin)", "BUY steamed buns (150 minshin)",
     "BUY heavy beam mining gun upgrade (1500 minshin)"}

\* the keys of Game.command_handlers
CommandWords == {"QUIT", "HELP", "MAP", "GO", "TAKE", "DROP", "INVENTORY", "OPEN", "LOOK",
                 "TALK", "INSERT", "INVESTIGATE", "CHECK", "READ", "DONATE", "DEBUG"}

\* Game.command_handlers[word](argument)
CommandHandlers(g, c) ==
    CASE c.word = "QUIT" -> QuitGame(g)
      [] c.word = "HELP" -> PrintHelp(g)
      [] c.word = "MAP" -> ShowMap(g)
      [] c.word = "GO" -> DoGoCommand(g, c.second)
      [] c.word = "TAKE" -> TakeItem(g, c.second)
      [] c.word = "DROP" -> DropItem(g, c.second)
      [] c.word = "INVENTORY" -> ShowInventory(g)
      [] c.word = "OPEN" -> OpenContainer(g, c.second)
      [] c.word = "LOOK" -> LookAt(g, c.second)
      [] c.word = "TALK" -> TalkTo(g, c.second)
      [] c.word = "INSERT" -> InsertItem(g, c.second)
      [] c.word = "INVESTIGATE" -> Investigate(g, c.second)
      [] c.word = "CHECK" -> CheckItem(g, c.second)
      [] c.word = "READ" -> Read(g, c.second)
      [] c.word = "DONATE" -> Donate(g)
      [] c.word = "DEBUG" -> HandleDebugCommand(g, c.second, c.number)

\* a handle_action without its except clause
HandleActionUncaught(g, c, rolls) ==
    LET phrase == HandleFullPhraseCommands(g, c, rolls)
    IN IF StateOf(g) = "donating"
       THEN IF c.word \in {"QUIT", "HELP", "MAP", "DEBUG", "INVENTORY"}
            THEN CommandHandlers(g, c)
            ELSE HandleDonation(g, c)
       ELSE IF phrase.handled THEN phrase.g
       ELSE IF c.word \in CommandWords THEN CommandHandlers(g, c)
       ELSE Say(g, "I don't understand that.")

\* a handle_action that treats the donating state like every other
HandleActionAsElsewhere(g, c, rolls) ==
    LET Caught(r) == IF r.error
                     THEN Say([r EXCEPT !.error = FALSE], "An error occurred trying to do that.")
                     ELSE r
        phrase == HandleFullPhraseCommands(g, c, rolls)
    IN Caught(IF phrase.handled THEN phrase.g
              ELSE IF c.word \in CommandWords THEN CommandHandlers(g, c)
              ELSE Say(g, "I don't understand that."))

\* Game.handle_action
HandleAction(g, c, rolls) ==
    LET Caught(r) == IF r.error
                     THEN Say([r EXCEPT !.error = FALSE], "An error occurred trying to do that.")
                     ELSE r
        phrase == HandleFullPhraseCommands(g, c, rolls)
    IN IF StateOf(g) = "donating"
       THEN IF c.word \in {"QUIT", "HELP", "MAP", "DEBUG", "INVENTORY"}
            THEN CommandHandlers(g, c)
            ELSE HandleDonation(g, c)
       ELSE Caught(IF phrase.handled THEN phrase.g
                   ELSE IF c.word \in CommandWords THEN CommandHandlers(g, c)
                   ELSE Say(g, "I don't understand that."))

\* a line of text, and a line of digits
Typed(word, second) == [word |-> word, second |-> second, number |-> 0]
Digits(n) == [word |-> "DIGITS", second |-> "None", number |-> n]

\* chosen_action = interactions[choice_index].lower(); parts = chosen_action.split():
\* the verb in upper case and the rest of the lower-cased entry, for every
\* entry a menu of the game can hold
MenuCommand(entry) ==
    CASE entry = "go back" -> Typed("GO", "back")
      [] entry = "check weekly quota" -> Typed("CHECK", "weekly quota")
      [] entry = "check news" -> Typed("CHECK", "news")
      [] entry = "personal information" -> Typed("PERSONAL", "information")
      [] entry = "insert id card" -> Typed("INSERT", "id card")
      [] entry = "remove ID card and go back" ->
             Typed("REMOVE", "id card and go back")
      [] entry = "take ID card" -> Typed("TAKE", "id card")
      [] entry = "take mining gun" -> Typed("TAKE", "mining gun")
      [] entry = "check terminal" -> Typed("CHECK", "terminal")
      [] entry = "who is this man and why is covered in grey dust" ->
             Typed("WHO", "is this man and why is covered in grey dust")
      [] entry = "say \"you alright cecil\"" ->
             Typed("SAY", "\"you alright cecil\"")
      [] entry = "leave" -> Typed("LEAVE", "None")
      [] entry = "are you sure you alright?" ->
             Typed("ARE", "you sure you alright?")
      [] entry = "talk to Greyman Cecil" -> Typed("TALK", "to greyman cecil")
      [] entry = "read notice about quota increase" ->
             Typed("READ", "notice about quota increase")
      [] entry = "read warning about oxygen generators" ->
             Typed("READ", "warning about oxygen generators")
      [] entry = "read recent job listings" ->
             Typed("READ", "recent job listings")
      [] entry = "read an advert for a vendor at the market" ->
             Typed("READ", "an advert for a vendor at the market")
      [] entry = "step away from bulletin board" ->
             Typed("STEP", "away from bulletin board")
      [] entry = "look at bulletin board" -> Typed("LOOK", "at bulletin board")
      [] entry = "ask about thebian ground soil" ->
             Typed("ASK", "about thebian ground soil")
      [] entry = "ask why looks like she's contemplating" ->
             Typed("ASK", "why looks like she's contemplating")
      [] entry = "go back to plaza" -> Typed("GO", "back to plaza")
      [] entry = "offer thebian ground soil" ->
             Typed("OFFER", "thebian ground soil")
      [] entry = "approach Merchant Armedas stall" ->
             Typed("APPROACH", "merchant armedas stall")
      [] entry = "approach Blackest of Markets stall" ->
             Typed("APPROACH", "blackest of markets stall")
      [] entry = "visit Hinter's Prophecies" ->
             Typed("VISIT", "hinter's prophecies")
      [] entry = "what should I pay my attention to? (50 Minshin)" ->
             Typed("WHAT", "should i pay my attention to? (50 minshin)")
      [] entry = "read memorial pond plaque" ->
             Typed("READ", "memorial pond plaque")
      [] entry = "donate minshin into donation terminal" ->
             Typed("DONATE", "minshin into donation terminal")
      [] entry = "ask about his job" -> Typed("ASK", "about his job")
      [] entry = "ask why he's here" -> Typed("ASK", "why he's here")
      [] entry = "ask about the industrial sector" ->
             Typed("ASK", "about the industrial sector")
      [] entry = "ask why creedal is drooling" ->
             Typed("ASK", "why creedal is drooling")
      [] entry = "stay strong creed" -> Typed("STAY", "strong creed")
      [] entry = "go industrial sector" -> Typed("GO", "industrial sector")
      [] entry = "ask about the residential sector" ->
             Typed("ASK", "about the residential sector")
      [] entry = "give weatherbee a high five" ->
             Typed("GIVE", "weatherbee a high five")
      [] entry = "go residential sector" -> Typed("GO", "residential sector")
      [] entry = "deposit non-ambrosium materials" ->
             Typed("DEPOSIT", "non-ambrosium materials")
      [] entry = "view 'refinery for dummies' handbook" ->
             Typed("VIEW", "'refinery for dummies' handbook")
      [] entry = "insert ID card" -> Typed("INSERT", "id card")
      [] entry = "mine away" -> Typed("MINE", "away")
      [] entry = "view 'how to mine' handbook" ->
             Typed("VIEW", "'how to mine' handbook")
      [] entry = "deposit resources" -> Typed("DEPOSIT", "resources")
      [] entry = "view 'depositing 101' handbook" ->
             Typed("VIEW", "'depositing 101' handbook")
      [] entry = "approach terminal" -> Typed("APPROACH", "terminal")
      [] entry = "open cupboard" -> Typed("OPEN", "cupboard")
      [] entry = "talk to Science Officer Ephsus" ->
             Typed("TALK", "to science officer ephsus")
      [] entry = "talk to Security Officer Creedal" ->
             Typed("TALK", "to security officer creedal")
      [] entry = "talk to Security Officer Weatherbee" ->
             Typed("TALK", "to security officer weatherbee")
      [] entry = "talk to Colony Foreman Long" ->
             Typed("TALK", "to colony foreman long")
      [] entry = "take Ambrosium Crystal" -> Typed("TAKE", "ambrosium crystal")
      [] entry = "take lucky coin" -> Typed("TAKE", "lucky coin")
      [] entry = "go residential corridor" ->
             Typed("GO", "residential corridor")
      [] entry = "go your quarters" -> Typed("GO", "your quarters")
      [] entry = "go residential entrance" ->
             Typed("GO", "residential entrance")
      [] entry = "go central plaza" -> Typed("GO", "central plaza")
      [] entry = "go residential district" ->
             Typed("GO", "residential district")
      [] entry = "go colony market" -> Typed("GO", "colony market")
      [] entry = "go memorial pond" -> Typed("GO", "memorial pond")
      [] entry = "go security checkpoint" -> Typed("GO", "security checkpoint")
      [] entry = "go communications tower" ->
             Typed("GO", "communications tower")
      [] entry = "go industrial plaza" -> Typed("GO", "industrial plaza")
      [] entry = "go refinery" -> Typed("GO", "refinery")
      [] entry = "go mine entrance" -> Typed("GO", "mine entrance")
      [] entry = "go deposit station" -> Typed("GO", "deposit station")
      [] entry = "offer lucky coin" -> Typed("OFFER", "lucky coin")
      [] entry = "offer steamed buns" -> Typed("OFFER", "steamed buns")
      [] entry = "congratulations on your new job" ->
             Typed("CONGRATULATIONS", "on your new job")
      [] entry = "hows your spirits now weatherbee" ->
             Typed("HOWS", "your spirits now weatherbee")
      [] entry = "insert Communications Tower ID Card" ->
             Typed("INSERT", "communications tower id card")
      [] entry = "buy Communications Tower ID Card (4000 Minshin)" ->
             Typed("BUY", "communications tower id card (4000 minshin)")
      [] entry = "buy Olympus XL Backpack (500 Minshin)" ->
             Typed("BUY", "olympus xl backpack (500 minshin)")
      [] entry = "buy Steamed Buns (150 Minshin)" ->
             Typed("BUY", "steamed buns (150 minshin)")
      [] entry = "buy Heavy Beam Mining Gun Upgrade (1500 Minshin)" ->
             Typed("BUY", "heavy beam mining gun upgrade (1500 minshin)")
      [] entry = "Olympus XL Backpack -bought-" ->
             Typed("OLYMPUS", "xl backpack -bought-")
      [] entry = "Steamed Buns -bought-" -> Typed("STEAMED", "buns -bought-")
      [] entry = "Heavy Beam Mining Gun Upgrade -bought-" ->
             Typed("HEAVY", "beam mining gun upgrade -bought-")
      [] OTHER -> Typed("UNKNOWN", "None")

\* a get_command that counts the menu from zero
GetCommandFromZero(room, line) ==
    LET interactions == GetAvailableInteractions(room)
        choice_index == line.number
    IN IF room.current_interaction_state = "donating" \/ line.word # "DIGITS"
       THEN [command |-> line, room |-> room]
       ELSE IF 0 <= choice_index /\ choice_index < Len(interactions)
       THEN [command |-> [MenuCommand(interactions[choice_index + 1])
                             EXCEPT !.number = line.number],
             room |-> room]
       ELSE [command |-> NoCommand, room |-> AddMessage(room, "Invalid action number")]

\* TextUI.get_command on a line typed by the player: the command handed to
\* handle_action, or NoCommand for (None, None), and the room with the
\* message it was given.  A line of digits outside the donating state picks
\* the entry of that number from the menu; the command keeps the number typed.
GetCommand(room, line) ==
    LET interactions == GetAvailableInteractions(room)
        choice_index == line.number - 1
    IN IF room.current_interaction_state = "donating" \/ line.word # "DIGITS"
       THEN [command |-> line, room |-> room]
       ELSE IF 0 <= choice_index /\ choice_index < Len(interactions)
       THEN [command |-> [MenuCommand(interactions[choice_index + 1])
                             EXCEPT !.number = line.number],
             room |-> room]
       ELSE [command |-> NoCommand, room |-> AddMessage(room, "Invalid action number")]

\* Game.play, the first half of a pass: the line is read by get_command and
\* handle_action runs on the command; an ending screen or QUIT ends the run.
\* When get_command returns (None, None) the loop goes to display the room
\* again and handle_action does not run; the line refused is kept.
Pass(line, rolls) ==
    /\ pc = "input"
    /\ LET read == GetCommand(Here(Game), line)
       IN IF read.command = NoCommand
          THEN /\ rooms' = [rooms EXCEPT ![current_room] = read.room]
               /\ pc' = "refused"
               /\ command' = line
               /\ UNCHANGED <<player, time, current_room, mining_attempts, total_donations,
                              debug_mode, suppress_next_room_display, ending>>
          ELSE /\ \E g \in {HandleAction(Game, read.command, rolls)} :
                     /\ player' = g.player
                     /\ time' = g.time
                     /\ rooms' = g.rooms
                     /\ current_room' = g.current_room
                     /\ mining_attempts' = g.mining_attempts
                     /\ total_donations' = g.total_donations
                     /\ debug_mode' = g.debug_mode
                     /\ suppress_next_room_display' = g.suppress_next_room_display
                     /\ ending' = g.ending
                     /\ pc' = IF g.ending # "none" \/ g.finished THEN "done" ELSE "tail"
               /\ command' = read.command
    /\ UNCHANGED <<clockVars, unitVars, roomVars>>

\* Game.play after get_command returned (None, None): the room is displayed,
\* which drains its messages, and the loop reads the next line
Redisplay ==
    /\ pc = "refused"
    /\ rooms' = [rooms EXCEPT ![current_room] = GetMessages(@)]
    /\ pc' = "input"
    /\ command' = NoCommand
    /\ UNCHANGED <<player, time, current_room, mining_attempts, total_donations, debug_mode,
                   suppress_next_room_display, script, ending, clockVars, unitVars, roomVars>>

\* a second half of a pass that lets the quota period run a day over
PlayTailADayLate ==
    /\ pc = "tail"
    /\ IF time.days > QUOTA_PERIOD_DAYS
       THEN /\ ending' = IF AllQuestsComplete(player) THEN "good"
                         ELSE IF player.quota_fulfilled < player.ambrosium_quota
                         THEN "deportation" ELSE "average"
            /\ pc' = "done"
            /\ UNCHANGED <<rooms, suppress_next_room_display, command>>
       ELSE /\ pc' = "input"
            /\ suppress_next_room_display' = FALSE
            /\ rooms' = IF suppress_next_room_display THEN rooms
                        ELSE [rooms EXCEPT ![current_room] = GetMessages(@)]
            /\ command' = NoCommand
            /\ UNCHANGED ending
    /\ UNCHANGED <<player, time, current_room, mining_attempts, total_donations, debug_mode,
                   script, clockVars, unitVars, roomVars>>

\* Game.play, the second half of a pass: the end of the quota period is
\* looked for, and the room is displayed, which drains its messages; the
\* command just handled is dropped, the loop reads a new one next
PlayTail ==
    /\ pc = "tail"
    /\ IF time.days >= QUOTA_PERIOD_DAYS
       THEN /\ ending' = IF AllQuestsComplete(player) THEN "good"
                         ELSE IF player.quota_fulfilled < player.ambrosium_quota
                         THEN "deportation" ELSE "average"
            /\ pc' = "done"
            /\ UNCHANGED <<rooms, suppress_next_room_display, command>>
       ELSE /\ pc' = "input"
            /\ suppress_next_room_display' = FALSE
            /\ rooms' = IF suppress_next_room_display THEN rooms
                        ELSE [rooms EXCEPT ![current_room] = GetMessages(@)]
            /\ command' = NoCommand
            /\ UNCHANGED ending
    /\ UNCHANGED <<player, time, current_room, mining_attempts, total_donations, debug_mode,
                   script, clockVars, unitVars, roomVars>>

\* no dice are rolled
NoRolls == <<>>

\* a command typed at will
Dispatch(c, rolls) == Pass(c, rolls) /\ UNCHANGED script

\* the dice of one mining attempt that finds no skeleton
MineRolls ==
    {<<[find |-> item, skeleton |-> FALSE]>> : item \in {"Thebian Ground Soil", "Ambrosium Crystal"}}

\* the next command of a script
Scripted(opening) ==
    /\ script < Len(opening)
    /\ \E rolls \in IF opening[script + 1].word = "MINE" THEN MineRolls ELSE {NoRolls} :
          Pass(opening[script + 1], rolls)
    /\ script' = script + 1

\* the next command of a script is left out when it is one of the optional ones
Skipped(opening, optional) ==
    /\ pc = "input"
    /\ script < Len(opening)
    /\ opening[script + 1] \in optional
    /\ script' = script + 1
    /\ UNCHANGED <<player, time, rooms, current_room, mining_attempts, total_donations,
                   debug_mode, suppress_next_room_display, command, pc, ending,
                   clockVars, unitVars, roomVars>>

-----------------------------------------------------------------------------
(* The player's commands, one action for each *)

Go(destination) == Dispatch(Typed("GO", destination), NoRolls)

Take(item_name) == Dispatch(Typed("TAKE", item_name), NoRolls)

Open(container_name) == Dispatch(Typed("OPEN", container_name), NoRolls)

DebugModeCommand == Dispatch(Typed("DEBUGMODE", "None"), NoRolls)

DebugSet(system, value) ==
    Dispatch([word |-> "DEBUG", second |-> "set " \o system, number |-> value], NoRolls)

-----------------------------------------------------------------------------
(* Component specification: a Room driven by add_item and remove_item calls. *)
(* The Room is the Deposit Station as the world is built, the lucky coin     *)
(* lying in it.                                                              *)

\* the keys of ITEMS the calls are made with
RoomItems == {"lucky coin", "Ambrosium Crystal", "Clagnum Putty"}

\* the most items the room under test is given
MaxRoomItems == 4

\* one call room.add_item(item_name)
RoomAddItem(item_name) ==
    /\ Len(rooms["Deposit Station"].items) < MaxRoomItems
    /\ rooms' = [rooms EXCEPT !["Deposit Station"] = AddItem(@, item_name)]
    /\ UNCHANGED <<player, time, current_room, mining_attempts, total_donations,
                   debug_mode, suppress_next_room_display, command, script, pc,
                   ending, clockVars, unitVars, roomVars>>

\* one call room.remove_item(item), the item one of the room's
RoomRemoveItem(item) ==
    /\ item \in Range(rooms["Deposit Station"].items)
    /\ rooms' = [rooms EXCEPT !["Deposit Station"] = RemoveItem(@, item)]
    /\ UNCHANGED <<player, time, current_room, mining_attempts, total_donations,
                   debug_mode, suppress_next_room_display, command, script, pc,
                   ending, clockVars, unitVars, roomVars>>

RoomNext ==
    \/ \E item_name \in RoomItems : RoomAddItem(item_name)
    \/ \E item \in RoomItems : RoomRemoveItem(item)

SpecRoom == Init /\ [][RoomNext]_vars

-----------------------------------------------------------------------------
(* Component specification: a Room driven by calls on its exits, its NPCs,  *)
(* its interaction state and its message queue.  The Room is the Deposit    *)
(* Station as the world is built; every call is counted and recorded.       *)

\* the most calls made on the room under test
MaxRoomCalls == 4

\* exit labels: one the Deposit Station already has, one it has not, and one
\* that is never added
RoomDirections == {"industrial plaza", "north", "south"}

\* the NPC names the calls are made with
RoomNpcs == {"Dr. Test", "Greyman Cecil"}

\* state ids: registered by Room.__init__, registered by the factory, and two
\* that no Room registers
RoomStates == {"main", "terminal", "deposit_prompt", "testing", "None"}

\* the messages pushed
RoomMessages == {"Hello", "World"}

\* the record of the next call, and the frame of a call on the room
RoomCall(op, arg, result) ==
    /\ room_call.n < MaxRoomCalls
    /\ room_call' = [n |-> room_call.n + 1, op |-> op, arg |-> arg, result |-> result,
                     repeats |-> IF room_call.op = op /\ room_call.arg = arg
                                 THEN room_call.repeats + 1 ELSE 1,
                     from |-> rooms["Deposit Station"].current_interaction_state]
    /\ UNCHANGED <<player, time, current_room, mining_attempts, total_donations,
                   debug_mode, suppress_next_room_display, command, script, pc,
                   ending, clockVars, unitVars>>

\* one call room.add_exit(direction, other_room)
RoomAddExit(direction) ==
    /\ rooms' = [rooms EXCEPT !["Deposit Station"] = AddExit(@, direction, "Refinery")]
    /\ RoomCall("add_exit", direction, <<>>)

\* one call room.get_exit(direction)
RoomGetExit(direction) ==
    /\ rooms' = rooms
    /\ RoomCall("get_exit", direction, <<GetExit(rooms["Deposit Station"], direction)>>)

\* one call room.add_npc(npc)
RoomAddNpc(npc) ==
    /\ rooms' = [rooms EXCEPT !["Deposit Station"] = AddNpc(@, npc)]
    /\ RoomCall("add_npc", npc, <<>>)

\* one call room.set_interaction_state(state)
RoomSetInteractionState(state) ==
    /\ rooms' = [rooms EXCEPT !["Deposit Station"] = SetInteractionState(@, state)]
    /\ RoomCall("set_interaction_state", state, <<>>)

\* one call room.add_message(message)
RoomAddMessage(message) ==
    /\ rooms' = [rooms EXCEPT !["Deposit Station"] = AddMessage(@, message)]
    /\ RoomCall("add_message", message, <<>>)

\* one call room.get_messages(): the copy of the queue is the result
RoomGetMessages ==
    /\ rooms' = [rooms EXCEPT !["Deposit Station"] = GetMessages(@)]
    /\ RoomCall("get_messages", "None", rooms["Deposit Station"].messages)

RoomCallsNext ==
    \/ \E direction \in RoomDirections \ {"south"} : RoomAddExit(direction)
    \/ \E direction \in RoomDirections : RoomGetExit(direction)
    \/ \E npc \in RoomNpcs : RoomAddNpc(npc)
    \/ \E state \in RoomStates : RoomSetInteractionState(state)
    \/ \E message \in RoomMessages : RoomAddMessage(message)
    \/ RoomGetMessages

SpecRoomCalls == Init /\ [][RoomCallsNext]_vars

-----------------------------------------------------------------------------
(* Game specification: travel.  The player opens the cupboard, takes the ID *)
(* card or not, and walks the colony.                                       *)

\* the labels typed after GO: every exit of the world and the two sectors
TravelDestinations ==
    {ExitList[i][2] : i \in 1..Len(ExitList)} \cup {"industrial sector", "residential sector"}

\* the walk is followed over the first days of the quota period
MaxTravelDays == 1

TravelNext ==
    \/ time.days < MaxTravelDays /\ Open("cupboard")
    \/ time.days < MaxTravelDays /\ Take("id card")
    \/ \E destination \in TravelDestinations : time.days < MaxTravelDays /\ Go(destination)
    \/ PlayTail

SpecTravel == Init /\ [][TravelNext]_vars

-----------------------------------------------------------------------------
(* Game specification: the clock under the debug surface.  The player walks *)
(* near home, takes the mining gun and mines, and sets the hour with        *)
(* "debug set time".                                                        *)

MineAwayCommand(rolls) == Dispatch(Typed("MINE", "away"), rolls)

\* the hours typed after "debug set time"
DebugHours == {0 - 5, 14, 19}

\* the labels typed after GO
DebugDestinations == {"residential corridor", "your quarters"}

\* the dice of a mining attempt: soil every time, and no skeleton
SoilRolls == {<<[find |-> "Thebian Ground Soil", skeleton |-> FALSE]>>}

\* the run is followed over the first days of the quota period
MaxDebugDays == 1

DebugNext ==
    \/ time.days < MaxDebugDays /\ Open("cupboard")
    \/ time.days < MaxDebugDays /\ Take("mining gun")
    \/ \E destination \in DebugDestinations : time.days < MaxDebugDays /\ Go(destination)
    \/ \E rolls \in SoilRolls : time.days < MaxDebugDays /\ MineAwayCommand(rolls)
    \/ time.days < MaxDebugDays /\ DebugModeCommand
    \/ \E value \in DebugHours : time.days < MaxDebugDays /\ DebugSet("time", value)
    \/ PlayTail

SpecDebug == Init /\ [][DebugNext]_vars

-----------------------------------------------------------------------------
(* Game specification: the quests.  An opening played with the debug       *)
(* surface hands Ephsus five of her ten soil samples, puts five more, the   *)
(* lucky coin and the Steamed Buns in the inventory, reads the job listings *)
(* and congratulates Weatherbee, and stops the clock inside the maintenance *)
(* window.  From there the player teleports between the five quest rooms    *)
(* and talks, asks, offers and donates in any order.                        *)

\* "debug <argument> <value>"
Debug(argument, value) == [word |-> "DEBUG", second |-> argument, number |-> value]

QuestOpening ==
    <<Typed("DEBUGMODE", "None"),
      Debug("set minshin", 250),
      Debug("give thebian ground soil", 0), Debug("give thebian ground soil", 0),
      Debug("give thebian ground soil", 0), Debug("give thebian ground soil", 0),
      Debug("give thebian ground soil", 0),
      Debug("goto central plaza", 0),
      Typed("TALK", "to science officer ephsus"),
      Typed("ASK", "why looks like she's contemplating"),
      Typed("OFFER", "thebian ground soil"),
      Typed("GO", "back"), Typed("GO", "back"),
      Debug("give thebian ground soil", 0), Debug("give thebian ground soil", 0),
      Debug("give thebian ground soil", 0), Debug("give thebian ground soil", 0),
      Debug("give thebian ground soil", 0),
      Debug("give lucky coin", 0),
      Debug("give steamed buns", 0),
      Debug("goto residential entrance", 0),
      Typed("LOOK", "at bulletin board"),
      Typed("READ", "recent job listings"),
      Typed("STEP", "away from bulletin board"),
      Debug("goto security checkpoint (industrial)", 0),
      Typed("CONGRATULATIONS", "on your new job"),
      Debug("set time", FACILITY_CLOSE_HOUR + 1)>>

\* the rooms of the five quests
QuestRooms == {"Residential Corridor", "Central Plaza", "Security Checkpoint (Residential)",
               "Security Checkpoint (Industrial)", "Memorial Pond"}

\* the names typed after "talk to"
QuestNpcs == {"greyman cecil", "science officer ephsus", "security officer creedal",
              "security officer weatherbee"}

\* the questions that lead to a quest prompt
QuestQuestions ==
    {Typed("SAY", "\"you alright cecil\""), Typed("ARE", "you sure you alright?"),
     Typed("ASK", "why looks like she's contemplating"),
     Typed("ASK", "why creedal is drooling"), Typed("HOWS", "your spirits now weatherbee")}

\* the hand-ins
QuestOffers ==
    {Typed("OFFER", "lucky coin"), Typed("OFFER", "thebian ground soil"),
     Typed("OFFER", "steamed buns"), Typed("GIVE", "weatherbee a high five")}

\* the amounts typed at the donation terminal
QuestDonations == {FOREMAN_SPAWN_DONATION_THRESHOLD}

\* a question that lists an offer is asked until its prompt lists this many
MaxOffers == 1

QuestNext ==
    LET free == script = Len(QuestOpening)
        Listed(room_name, state, offer) ==
            Count(rooms[room_name].interaction_states[state].interactions, offer)
        Bounded(c) ==
            /\ c.word = "ARE" =>
                  Listed("Residential Corridor", "cecil_quest_prompt", "offer lucky coin")
                      < MaxOffers
            /\ c.second = "why creedal is drooling" =>
                  Listed("Security Checkpoint (Residential)", "creedal_quest_prompt",
                         "offer steamed buns") < MaxOffers
    IN \/ Scripted(QuestOpening)
       \/ \E room_name \in QuestRooms :
             /\ free
             /\ StateOf(Game) = "main"
             /\ Dispatch(Debug("goto " \o Lower(room_name), 0), NoRolls)
       \/ \E npc \in QuestNpcs : free /\ Dispatch(Typed("TALK", "to " \o npc), NoRolls)
       \/ \E c \in QuestQuestions : free /\ Bounded(c) /\ Dispatch(c, NoRolls)
       \/ \E c \in QuestOffers : free /\ Dispatch(c, NoRolls)
       \/ free /\ Dispatch(Typed("TALK", "to colony foreman long"), NoRolls)
       \/ free /\ Dispatch(Typed("DONATE", "minshin into donation terminal"), NoRolls)
       \/ \E n \in QuestDonations :
             free /\ StateOf(Game) = "donating" /\ Dispatch(Digits(n), NoRolls)
       \/ free /\ Dispatch(Typed("GO", "back"), NoRolls)
       \/ PlayTail

SpecQuest == Init /\ [][QuestNext]_vars

-----------------------------------------------------------------------------
(* Game specification: the corridor.  The player, given the lucky coin, walks *)
(* between the quarters, the corridor and the residential entrance, and      *)
(* talks to Greyman Cecil, asks him and hands him the coin at any moment.    *)

CorridorOpening == <<Typed("DEBUGMODE", "None"), Debug("give lucky coin", 0)>>

\* the walk is followed over the first days of the quota period
MaxCorridorDays == 1

CorridorNext ==
    LET free == script = Len(CorridorOpening) /\ time.days < MaxCorridorDays
    IN \/ Scripted(CorridorOpening)
       \/ \E destination \in {"your quarters", "residential corridor", "residential entrance"} :
             free /\ Go(destination)
       \/ free /\ Dispatch(Typed("TALK", "to greyman cecil"), NoRolls)
       \/ free /\ Dispatch(Typed("SAY", "\"you alright cecil\""), NoRolls)
       \/ /\ free
          /\ Count(rooms["Residential Corridor"].interaction_states["cecil_quest_prompt"].interactions,
                   "offer lucky coin") < MaxOffers
          /\ Dispatch(Typed("ARE", "you sure you alright?"), NoRolls)
       \/ free /\ Dispatch(Typed("OFFER", "lucky coin"), NoRolls)
       \/ free /\ Dispatch(Typed("GO", "back"), NoRolls)
       \/ PlayTail

SpecCorridor == Init /\ [][CorridorNext]_vars

-----------------------------------------------------------------------------
(* Game specification: the deposits.  The player takes the ID card, leaves   *)
(* the quota progress at zero or sets it just below or at the target, fills  *)
(* the inventory in any order with the debug surface and then deposits at    *)
(* the Refinery and at the Deposit Station.                                  *)

DepositOpening ==
    <<Typed("OPEN", "cupboard"), Typed("TAKE", "id card"), Typed("GO", "back"),
      Typed("DEBUGMODE", "None"),
      Debug("set quota", WEEKLY_AMBROSIUM_QUOTA - 2), Debug("set quota", WEEKLY_AMBROSIUM_QUOTA)>>

\* what the debug surface hands out
DepositItems == {"Thebian Ground Soil", "Clagnum Putty", "Matterstone Ore",
                 "Ambrosium Crystal", "Ambrosium Cluster"}

\* the inventory is filled up to this many entries
MaxDepositItems == 5

DepositNext ==
    LET free == script = Len(DepositOpening)
    IN \/ Scripted(DepositOpening)
       \/ Skipped(DepositOpening, {Debug("set quota", WEEKLY_AMBROSIUM_QUOTA - 2),
                                   Debug("set quota", WEEKLY_AMBROSIUM_QUOTA)})
       \/ \E item \in DepositItems :
             /\ free
             /\ time = NewColonyTime
             /\ StateOf(Game) = "main"
             /\ Len(player.inventory) < MaxDepositItems
             /\ Dispatch(Debug("give " \o Lower(item), 0), NoRolls)
       \/ \E room_name \in {"Refinery", "Deposit Station"} :
             /\ free
             /\ StateOf(Game) = "main"
             /\ current_room # room_name
             /\ Dispatch(Debug("goto " \o Lower(room_name), 0), NoRolls)
       \/ \E text \in {"resources", "non-ambrosium materials"} :
             free /\ StateOf(Game) = "main" /\ Dispatch(Typed("DEPOSIT", text), NoRolls)
       \/ free /\ Dispatch(Typed("INSERT", "id card"), NoRolls)
       \/ PlayTail

SpecDeposit == Init /\ [][DepositNext]_vars

-----------------------------------------------------------------------------
(* Game specification: the economy.  The player walks to the Colony Market   *)
(* and on to the Memorial Pond and tries every purchase, some twice, the     *)
(* prophecy and donations small, large and in between.  Each attempt can be  *)
(* left out; so can the switch to debug mode, without which the debug        *)
(* commands that set the purse, fill the inventory and open the black market *)
(* do nothing, and the player pays from the initial purse.  At the pond the  *)
(* player also talks to Colony Foreman Long, before and after the donation   *)
(* that makes him appear, and donates once more.                             *)

EconomyScript ==
    <<Typed("DEBUGMODE", "None"),
      Debug("set minshin", PROPHECY_COST - MINIMUM_DONATION),
      Debug("set minshin", BLACK_MARKET_ID_PRICE + MINING_UPGRADE_PRICE + BACKPACK_PRICE
                               + STEAMED_BUNS_PRICE + PROPHECY_COST),
      Debug("give clagnum putty", 0), Debug("give clagnum putty", 0),
      Debug("give clagnum putty", 0), Debug("give clagnum putty", 0),
      Debug("give clagnum putty", 0), Debug("give clagnum putty", 0),
      Debug("give clagnum putty", 0), Debug("give clagnum putty", 0),
      Debug("give clagnum putty", 0),
      Debug("give matterstone ore", 0),
      Debug("set day", 1),
      Typed("GO", "residential corridor"), Typed("GO", "residential entrance"),
      Typed("GO", "central plaza"), Typed("GO", "colony market"),
      Typed("VISIT", "hinter's prophecies"),
      Typed("WHAT", "should i pay my attention to? (50 minshin)"),
      Typed("GO", "back"),
      Typed("APPROACH", "merchant armedas stall"),
      Typed("BUY", "steamed buns (150 minshin)"),
      Typed("BUY", "heavy beam mining gun upgrade (1500 minshin)"),
      Typed("BUY", "olympus xl backpack (500 minshin)"),
      Typed("BUY", "steamed buns (150 minshin)"),
      Typed("BUY", "olympus xl backpack (500 minshin)"),
      Typed("GO", "back"),
      Typed("APPROACH", "blackest of markets stall"),
      Typed("BUY", "communications tower id card (4000 minshin)"),
      Typed("GO", "back"),
      Typed("VISIT", "hinter's prophecies"),
      Typed("WHAT", "should i pay my attention to? (50 minshin)"),
      Typed("GO", "back"),
      Typed("GO", "central plaza"), Typed("GO", "memorial pond"),
      Typed("DONATE", "minshin into donation terminal"),
      Digits(MINIMUM_DONATION - 1),
      Digits(BLACK_MARKET_ID_PRICE + BLACK_MARKET_ID_PRICE),
      Digits(MINIMUM_DONATION),
      Typed("GO", "back"),
      Typed("DONATE", "minshin into donation terminal"),
      Digits(PROPHECY_COST - MINIMUM_DONATION),
      Typed("GO", "back"),
      Typed("TALK", "to colony foreman long"),
      Typed("DONATE", "minshin into donation terminal"),
      Digits(FOREMAN_SPAWN_DONATION_THRESHOLD),
      Typed("GO", "back"),
      Typed("TALK", "to colony foreman long"),
      Typed("DONATE", "minshin into donation terminal"),
      Digits(MINIMUM_DONATION),
      Typed("GO", "back")>>

\* the commands of the script that may be left out
EconomyOptional ==
    {Typed("DEBUGMODE", "None"),
     Debug("set minshin", PROPHECY_COST - MINIMUM_DONATION),
     Debug("set minshin", BLACK_MARKET_ID_PRICE + MINING_UPGRADE_PRICE + BACKPACK_PRICE
                              + STEAMED_BUNS_PRICE + PROPHECY_COST),
     Debug("give matterstone ore", 0),
     Typed("WHAT", "should i pay my attention to? (50 minshin)"),
     Typed("BUY", "steamed buns (150 minshin)"),
     Typed("BUY", "heavy beam mining gun upgrade (1500 minshin)"),
     Typed("BUY", "olympus xl backpack (500 minshin)"),
     Typed("BUY", "communications tower id card (4000 minshin)"),
     Digits(MINIMUM_DONATION - 1), Digits(BLACK_MARKET_ID_PRICE + BLACK_MARKET_ID_PRICE),
     Digits(MINIMUM_DONATION), Digits(PROPHECY_COST - MINIMUM_DONATION),
     Digits(FOREMAN_SPAWN_DONATION_THRESHOLD), Typed("TALK", "to colony foreman long")}

EconomyNext ==
    \/ Scripted(EconomyScript)
    \/ Skipped(EconomyScript, EconomyOptional)
    \/ PlayTail

SpecEconomy == Init /\ [][EconomyNext]_vars

-----------------------------------------------------------------------------
(* Game specification: the quota period.  The player walks between the       *)
(* quarters and the corridor through the days of the period, and with the    *)
(* debug surface moves the clock to the last hour of a day, sets the day and *)
(* fills the quota.                                                          *)

DeadlineOpening == <<Typed("DEBUGMODE", "None")>>

\* the days set with "debug set day"
DeadlineDays == {QUOTA_PERIOD_DAYS - 1, QUOTA_PERIOD_DAYS, QUOTA_PERIOD_DAYS + 1}

DeadlineNext ==
    LET free == script = Len(DeadlineOpening)
    IN \/ Scripted(DeadlineOpening)
       \/ \E destination \in DebugDestinations : free /\ Go(destination)
       \/ \E value \in DeadlineDays : free /\ DebugSet("day", value)
       \/ free /\ DebugSet("time", DAY_LENGTH - 1)
       \/ free /\ DebugSet("quota", WEEKLY_AMBROSIUM_QUOTA)
       \/ PlayTail

SpecDeadline == Init /\ [][DeadlineNext]_vars

-----------------------------------------------------------------------------
(* Game specification: the menus.  With the debug surface switched on, the   *)
(* player types numbers - those of the current menu, zero, and one past the  *)
(* menu - and GO BACK, and is carried from room to room by the debug         *)
(* surface; the numbered entries that walk are taken in the residential      *)
(* rooms during the first hour only, those that take are taken from the      *)
(* cupboard only, and the entry that mines is left alone.  INVENTORY is      *)
(* typed as well.                                                            *)

MenuOpening == <<Typed("DEBUGMODE", "None")>>

\* the longest menu of the game has fewer entries than this
MaxMenuEntries == 9

\* the hours during which the player walks
MaxMenuHours == 1

\* the rooms the player walks out of
MenuWalks == {"Your Quarters", "Residential Corridor", "Residential Entrance"}

\* the rooms the debug surface carries the player to
MenuRooms == {Lower(name) : name \in RoomNames}

MenuNext ==
    LET free == script = Len(MenuOpening)
        menu == GetAvailableInteractions(Here(Game))
        Picked(n) == GetCommand(Here(Game), Digits(n)).command
    IN \/ Scripted(MenuOpening)
       \/ \E n \in 0..MaxMenuEntries + 1 :
             /\ free
             /\ n <= Len(menu) + 1
             /\ Picked(n).word # "MINE"
             /\ Picked(n).word = "TAKE" => StateOf(Game) = "cupboard"
             /\ Picked(n).word = "GO" /\ Picked(n).second # "back"
                    => /\ current_room \in MenuWalks
                       /\ time.days = 0 /\ time.hours < Ticks(MaxMenuHours)
             /\ Dispatch(Digits(n), NoRolls)
       \/ free /\ Dispatch(Typed("GO", "back"), NoRolls)
       \/ free /\ Dispatch(Typed("INVENTORY", "None"), NoRolls)
       \/ \E destination \in MenuRooms :
             /\ free
             /\ StateOf(Game) = "main"
             /\ Lower(current_room) # destination
             /\ Dispatch(Debug("goto " \o destination, 0), NoRolls)
       \/ PlayTail
       \/ Redisplay

SpecMenu == Init /\ [][MenuNext]_vars

-----------------------------------------------------------------------------
(* Game specification: the donation terminal.  Carried to the Memorial Pond  *)
(* by the debug surface, the player types lines of every kind, at the        *)
(* terminal and away from it; the line that walks to the plaza is typed at   *)
(* the terminal only, and the purse is refilled before the first donation    *)
(* only.                                                                     *)

PondOpening == <<Typed("DEBUGMODE", "None"), Debug("goto memorial pond", 0)>>

\* the purse the debug surface hands out
PondPurse == FOREMAN_SPAWN_DONATION_THRESHOLD + PROPHECY_COST

\* the lines typed: digits, commands of the three tiers, and the five
\* commands that are let through
PondLines ==
    {Typed("DONATE", "minshin into donation terminal"),
     Digits(0), Digits(1), Digits(MINIMUM_DONATION), Digits(PROPHECY_COST - MINIMUM_DONATION),
     Digits(FOREMAN_SPAWN_DONATION_THRESHOLD),
     Typed("GO", "back"), Typed("GO", "central plaza"), Typed("TAKE", "lucky coin"),
     Typed("TALK", "to colony foreman long"), Typed("READ", "memorial pond plaque"),
     Typed("DEBUGMODE", "None"),
     Typed("INVENTORY", "None"), Typed("HELP", "None"), Typed("MAP", "None"),
     Typed("QUIT", "None"), Debug("set minshin", PondPurse)}

PondNext ==
    LET free == script = Len(PondOpening)
    IN \/ Scripted(PondOpening)
       \/ \E line \in PondLines :
             /\ free
             /\ line = Typed("GO", "central plaza") => StateOf(Game) = "donating"
             /\ line.word = "DEBUG" => total_donations = 0
             /\ Dispatch(line, NoRolls)
       \/ PlayTail
       \/ Redisplay

SpecPond == Init /\ [][PondNext]_vars

-----------------------------------------------------------------------------
(* Game specification: the three tiers of commands.  With or without the ID  *)
(* card, the player is carried by the debug surface between the quarters,    *)
(* the Deposit Station, the Communications Tower Entrance and the Colony     *)
(* Market, and types full phrases, phrases of the prefix table and plain     *)
(* verbs, in the room they belong to and away from it; the merchant's stall  *)
(* is approached at the market only.                                         *)

TiersOpening ==
    <<Typed("OPEN", "cupboard"), Typed("TAKE", "id card"), Typed("GO", "back"),
      Typed("DEBUGMODE", "None")>>

\* the rooms the debug surface carries to
TiersRooms == {"Your Quarters", "Deposit Station", "Communications Tower Entrance",
               "Colony Market"}

\* the lines typed
TiersLines ==
    {Typed("GO", "back"), Typed("INSERT", "id card"), Typed("APPROACH", "terminal"),
     Typed("DEPOSIT", "resources"), Typed("CHECK", "weekly quota"), Typed("CHECK", "terminal"),
     Typed("PERSONAL", "information"), Typed("VIEW", "'depositing 101' handbook"),
     Typed("APPROACH", "merchant armedas stall"), Typed("BUY", "steamed buns (150 minshin)"),
     Typed("INSERT", "communications tower id card"), Typed("INSERT", "None"),
     Typed("LEAVE", "None")}

TiersNext ==
    LET free == script = Len(TiersOpening)
    IN \/ Scripted(TiersOpening)
       \/ Skipped(TiersOpening, {Typed("TAKE", "id card")})
       \/ \E room_name \in TiersRooms :
             /\ free
             /\ StateOf(Game) = "main"
             /\ current_room # room_name
             /\ Dispatch(Debug("goto " \o Lower(room_name), 0), NoRolls)
       \/ \E line \in TiersLines :
             /\ free
             /\ line.second = "merchant armedas stall" => current_room = "Colony Market"
             /\ Dispatch(line, NoRolls)
       \/ PlayTail

SpecTiers == Init /\ [][TiersNext]_vars

-----------------------------------------------------------------------------
(* Game specification: worlds built one after another in one process.  A    *)
(* Game is constructed over the last one, as a test case's setUp does, and   *)
(* between constructions the player is carried to the Industrial Plaza and   *)
(* the Refinery and opens and leaves the prompt and the inventory there.     *)
(* RoomFactory keeps the two Rooms in class attributes, so a construction    *)
(* finds them as the last Game left them.                                    *)

\* the Games constructed in one run
MaxWorlds == 3

\* the Rooms RoomFactory caches
CachedRooms == {"Industrial Plaza", "Refinery"}

\* phase one of a later create_rooms: the factory hands back the cached Rooms
CreatedRoomsCached(cache) ==
    [n \in RoomNames |-> IF n \in CachedRooms THEN cache[n] ELSE CreatedRooms[n]]

\* the Games constructed so far: each one wired the Refinery to the plaza
Worlds == Count(rooms["Refinery"].interaction_states["main"].interactions,
                "go industrial plaza")

\* Game.__init__, once more in the same process
Construct ==
    /\ pc = "input"
    /\ Worlds < MaxWorlds
    /\ player' = NewPlayer
    /\ time' = NewColonyTime
    /\ rooms' = ConnectRooms(CreatedRoomsCached(rooms), Len(ExitList))
    /\ current_room' = "Your Quarters"
    /\ mining_attempts' = 0
    /\ total_donations' = 0
    /\ debug_mode' = FALSE
    /\ suppress_next_room_display' = FALSE
    /\ command' = NoCommand
    /\ script' = 0
    /\ pc' = "input"
    /\ ending' = "none"
    /\ UNCHANGED <<clockVars, unitVars, roomVars>>

WorldsOpening == <<Typed("DEBUGMODE", "None")>>

\* the lines typed between constructions
WorldsLines ==
    {Typed("DEPOSIT", "non-ambrosium materials"), Typed("GO", "back"),
     Typed("INVENTORY", "None"), Typed("VIEW", "'refinery for dummies' handbook")}

WorldsNext ==
    LET free == script = Len(WorldsOpening)
    IN \/ Scripted(WorldsOpening)
       \/ \E room_name \in CachedRooms \cup {"Your Quarters"} :
             /\ free
             /\ current_room # room_name
             /\ Dispatch(Debug("goto " \o Lower(room_name), 0), NoRolls)
       \/ \E line \in WorldsLines : free /\ Dispatch(line, NoRolls)
       \/ PlayTail
       \/ Construct

SpecWorlds == Init /\ [][WorldsNext]_vars

-----------------------------------------------------------------------------
(* Game specification: the debug surface.  The player toggles the debug     *)
(* flag at will and types debug commands of every kind, with the flag on     *)
(* and with it off, at home, at the Refinery and at the donation terminal.   *)

\* the inventory the debug surface fills
MaxSurfaceItems == 2

\* the debug commands typed
SurfaceLines ==
    {Debug("set time", 14), Debug("set day", 1), Debug("set minshin", PROPHECY_COST),
     Debug("set quota", WEEKLY_AMBROSIUM_QUOTA), Debug("give id card", 0),
     Debug("give thebian ground soil", 0), Debug("goto refinery", 0),
     Debug("goto memorial pond", 0), Debug("None", 0)}

SurfaceNext ==
    \/ Dispatch(Typed("DEBUGMODE", "None"), NoRolls)
    \/ \E line \in SurfaceLines :
          /\ Len(player.inventory) < MaxSurfaceItems
          /\ Dispatch(line, NoRolls)
    \/ \E line \in {Typed("DONATE", "minshin into donation terminal"), Typed("GO", "back")} :
          Dispatch(line, NoRolls)
    \/ PlayTail

SpecSurface == Init /\ [][SurfaceNext]_vars

-----------------------------------------------------------------------------
(* Game specification: handlers that fail.  Carried between four rooms by    *)
(* the debug surface, the player talks to Weatherbee and to Ephsus and       *)
(* approaches the merchant's stall wherever they are, where the state the    *)
(* handler reaches for exists and where it does not.                         *)

FailuresOpening == <<Typed("DEBUGMODE", "None")>>

\* the rooms the debug surface carries to
FailuresRooms == {"Your Quarters", "Central Plaza", "Colony Market",
                  "Security Checkpoint (Industrial)"}

\* the lines typed
FailuresLines ==
    {Typed("TALK", "to security officer weatherbee"), Typed("TALK", "to science officer ephsus"),
     Typed("APPROACH", "merchant armedas stall"), Typed("GO", "back"), Typed("TALK", "None"),
     Typed("INVENTORY", "None"), Typed("QUIT", "None")}

FailuresNext ==
    LET free == script = Len(FailuresOpening)
    IN \/ Scripted(FailuresOpening)
       \/ \E room_name \in FailuresRooms :
             /\ free
             /\ current_room # room_name
             /\ Dispatch(Debug("goto " \o Lower(room_name), 0), NoRolls)
       \/ \E line \in FailuresLines : free /\ Dispatch(line, NoRolls)
       \/ PlayTail

SpecFailures == Init /\ [][FailuresNext]_vars

-----------------------------------------------------------------------------
(* Game specification: taking.  The player opens the cupboard, looks into    *)
(* the inventory, steps back, and takes what the cupboard, the Deposit       *)
(* Station and the Mine Entrance hold, in any order, with an inventory the   *)
(* debug surface fills to the brim in Your Quarters before anything is taken.*)

TakingOpening == <<Typed("DEBUGMODE", "None")>>

\* the rooms the debug surface carries to
TakingRooms == {"Your Quarters", "Deposit Station", "Mine Entrance"}

\* the lines typed
TakingLines ==
    {Typed("OPEN", "cupboard"), Typed("TAKE", "id card"), Typed("TAKE", "mining gun"),
     Typed("TAKE", "lucky coin"), Typed("TAKE", "ambrosium crystal"), Typed("TAKE", "None"),
     Typed("GO", "back"), Typed("INVENTORY", "None")}

TakingNext ==
    LET free == script = Len(TakingOpening)
    IN \/ Scripted(TakingOpening)
       \/ \E room_name \in TakingRooms :
             /\ free
             /\ StateOf(Game) = "main"
             /\ current_room # room_name
             /\ Dispatch(Debug("goto " \o Lower(room_name), 0), NoRolls)
       \/ /\ free
          /\ StateOf(Game) = "main"
          /\ current_room = "Your Quarters"
          /\ \A i \in DOMAIN player.inventory : player.inventory[i] = "Clagnum Putty"
          /\ Len(player.inventory) < MAX_INVENTORY_DEFAULT
          /\ Dispatch(Debug("give clagnum putty", 0), NoRolls)
       \/ \E line \in TakingLines : free /\ Dispatch(line, NoRolls)
       \/ PlayTail

SpecTaking == Init /\ [][TakingNext]_vars

-----------------------------------------------------------------------------
(* Game specification: the two sides of the checkpoints.  Without the debug  *)
(* surface the player opens the cupboard, takes what it holds or not, walks  *)
(* the colony, mines, takes what lies about, deposits, and tries to drop the *)
(* ID card.                                                                  *)

\* the run is followed over the first hours of the first day
MaxSidesHour == 5

\* the lines typed besides GO and MINE AWAY
SidesLines ==
    {Typed("OPEN", "cupboard"), Typed("TAKE", "id card"), Typed("TAKE", "mining gun"),
     Typed("TAKE", "ambrosium crystal"), Typed("GO", "back"), Typed("DROP", "id card"),
     Typed("DROP", "thebian ground soil"), Typed("DEPOSIT", "resources"),
     Typed("INSERT", "id card")}

SidesNext ==
    LET early == time.days = 0 /\ time.hours < Ticks(MaxSidesHour)
    IN \/ \E line \in SidesLines : early /\ Dispatch(line, NoRolls)
       \/ \E destination \in TravelDestinations : early /\ Go(destination)
       \/ \E rolls \in SoilRolls : early /\ MineAwayCommand(rolls)
       \/ PlayTail

SpecSides == Init /\ [][SidesNext]_vars

-----------------------------------------------------------------------------
(* Game specification: Weatherbee.  With the debug surface the player moves  *)
(* between the bulletin board and the industrial checkpoint and sets the     *)
(* hour before and into the maintenance window; the lines of Weatherbee's    *)
(* quest are typed in any order.                                             *)

WeatherbeeOpening == <<Typed("DEBUGMODE", "None")>>

\* the rooms the debug surface carries to
WeatherbeeRooms == {"Residential Entrance", "Security Checkpoint (Industrial)"}

\* the hours typed after "debug set time"
WeatherbeeHours == {FACILITY_CLOSE_HOUR - 1, FACILITY_CLOSE_HOUR, FACILITY_OPEN_HOUR}

\* the lines typed
WeatherbeeLines ==
    {Typed("LOOK", "at bulletin board"), Typed("READ", "recent job listings"),
     Typed("STEP", "away from bulletin board"),
     Typed("TALK", "to security officer weatherbee"),
     Typed("CONGRATULATIONS", "on your new job"), Typed("HOWS", "your spirits now weatherbee"),
     Typed("GIVE", "weatherbee a high five"), Typed("GO", "back"), Typed("INVENTORY", "None")}

WeatherbeeNext ==
    LET free == script = Len(WeatherbeeOpening)
    IN \/ Scripted(WeatherbeeOpening)
       \/ \E room_name \in WeatherbeeRooms :
             /\ free
             /\ current_room # room_name
             /\ Dispatch(Debug("goto " \o Lower(room_name), 0), NoRolls)
       \/ \E hour \in WeatherbeeHours :
             free /\ time.hours # Ticks(hour) /\ Dispatch(Debug("set time", hour), NoRolls)
       \/ \E line \in WeatherbeeLines : free /\ Dispatch(line, NoRolls)
       \/ PlayTail

SpecWeatherbee == Init /\ [][WeatherbeeNext]_vars

-----------------------------------------------------------------------------
(* Game specification: asking again.  The player holds the lucky coin and    *)
(* the steamed buns, stands before Cecil or Creedal, and asks, steps back    *)
(* and asks again.                                                           *)

AskingOpening ==
    <<Typed("DEBUGMODE", "None"), Debug("give lucky coin", 0), Debug("give steamed buns", 0)>>

\* where Cecil and Creedal stand
AskingRooms == {"Residential Corridor", "Security Checkpoint (Residential)"}

\* a question that lists an offer is asked until its prompt lists this many
MaxAsked == 2

\* the lines typed besides the two questions
AskingLines ==
    {Typed("TALK", "to greyman cecil"), Typed("TALK", "to security officer creedal"),
     Typed("SAY", "\"you alright cecil\""), Typed("GO", "back")}

AskingNext ==
    LET free == script = Len(AskingOpening)
        Listed(room_name, state, offer) ==
            Count(rooms[room_name].interaction_states[state].interactions, offer)
    IN \/ Scripted(AskingOpening)
       \/ \E room_name \in AskingRooms :
             /\ free
             /\ StateOf(Game) = "main"
             /\ current_room # room_name
             /\ Dispatch(Debug("goto " \o Lower(room_name), 0), NoRolls)
       \/ \E line \in AskingLines : free /\ Dispatch(line, NoRolls)
       \/ /\ free
          /\ Listed("Residential Corridor", "cecil_quest_prompt", "offer lucky coin") < MaxAsked
          /\ Dispatch(Typed("ARE", "you sure you alright?"), NoRolls)
       \/ /\ free
          /\ Listed("Security Checkpoint (Residential)", "creedal_quest_prompt",
                    "offer steamed buns") < MaxAsked
          /\ Dispatch(Typed("ASK", "why creedal is drooling"), NoRolls)
       \/ PlayTail

SpecAsking == Init /\ [][AskingNext]_vars

-----------------------------------------------------------------------------
(* Game specification: the inventory.  One long script fills the inventory, *)
(* takes the ID card and the mining gun, mines, buys at both markets, drops *)
(* and reaches back, deposits at both stations and hands in to Creedal and  *)
(* Ephsus; the commands that add to or take from the inventory can each be  *)
(* left out, so that every later command meets inventories of many sizes.   *)

InventoryScript ==
    <<Typed("OPEN", "cupboard"),
      Typed("DEBUGMODE", "None"),
      Debug("set minshin", 5000),
      Debug("set time", FACILITY_CLOSE_HOUR - 1),
      Debug("give clagnum putty", 0), Debug("give clagnum putty", 0),
      Debug("give clagnum putty", 0), Debug("give clagnum putty", 0),
      Debug("give clagnum putty", 0), Debug("give clagnum putty", 0),
      Debug("give clagnum putty", 0),
      Typed("TAKE", "id card"),
      Typed("TAKE", "mining gun"),
      Debug("give thebian ground soil", 0), Debug("give thebian ground soil", 0),
      Typed("MINE", "away"),
      Debug("goto colony market", 0),
      Typed("APPROACH", "merchant armedas stall"),
      Typed("BUY", "steamed buns (150 minshin)"),
      Typed("BUY", "olympus xl backpack (500 minshin)"),
      Typed("BUY", "steamed buns (150 minshin)"),
      Debug("give clagnum putty", 0), Debug("give clagnum putty", 0),
      Debug("give clagnum putty", 0), Debug("give clagnum putty", 0),
      Debug("give matterstone ore", 0), Debug("give matterstone ore", 0),
      Debug("give matterstone ore", 0), Debug("give matterstone ore", 0),
      Debug("give matterstone ore", 0), Debug("give matterstone ore", 0),
      Typed("MINE", "away"),
      Debug("give ambrosium crystal", 0),
      Typed("DROP", "thebian ground soil"),
      Typed("TAKE", "thebian ground soil"),
      Typed("DROP", "id card"),
      Typed("DROP", "mining gun"),
      Debug("goto refinery", 0),
      Typed("DEPOSIT", "non-ambrosium materials"),
      Typed("INSERT", "id card"),
      Debug("goto deposit station", 0),
      Typed("DEPOSIT", "resources"),
      Typed("INSERT", "id card"),
      Debug("set day", 1),
      Debug("goto colony market", 0),
      Typed("APPROACH", "blackest of markets stall"),
      Typed("BUY", "communications tower id card (4000 minshin)"),
      Debug("goto communications tower entrance", 0),
      Typed("APPROACH", "terminal"),
      Typed("INSERT", "communications tower id card"),
      Debug("goto security checkpoint (residential)", 0),
      Typed("TALK", "to security officer creedal"),
      Typed("ASK", "why creedal is drooling"),
      Typed("OFFER", "steamed buns"),
      Debug("goto central plaza", 0),
      Typed("TALK", "to science officer ephsus"),
      Typed("ASK", "why looks like she's contemplating"),
      Debug("give thebian ground soil", 0),
      Typed("OFFER", "thebian ground soil")>>

\* the commands of the script that may be left out
InventoryOptional ==
    {Debug("give thebian ground soil", 0), Debug("give ambrosium crystal", 0),
     Typed("TAKE", "mining gun"), Typed("TAKE", "thebian ground soil"),
     Typed("MINE", "away"), Typed("DROP", "thebian ground soil"),
     Typed("BUY", "steamed buns (150 minshin)"), Typed("BUY", "olympus xl backpack (500 minshin)"),
     Typed("BUY", "communications tower id card (4000 minshin)"),
     Typed("INSERT", "id card"), Typed("INSERT", "communications tower id card"),
     Typed("OFFER", "steamed buns"), Typed("OFFER", "thebian ground soil")}

InventoryNext ==
    \/ Scripted(InventoryScript)
    \/ Skipped(InventoryScript, InventoryOptional)
    \/ PlayTail

SpecInventory == Init /\ [][InventoryNext]_vars

-----------------------------------------------------------------------------
(* Claims about the Player and the ColonyTime as components *)

\* C5: add_to_inventory returns false and leaves the inventory unchanged when
\* the inventory is at capacity, and when the item is a Resource whose count
\* already equals MAX_RESOURCE_STACK although capacity is left; in every other
\* case it appends exactly one entry at the end and returns true.
C5_AddItemContract ==
    [][unit_call'.op = "add" =>
        LET item == unit_call'.item
            full == Len(unit.inventory) >= unit.max_inventory
            stacked == item \in Resources /\ Count(unit.inventory, item) = MAX_RESOURCE_STACK
        IN IF full \/ stacked
           THEN unit_call'.result = FALSE /\ unit'.inventory = unit.inventory
           ELSE unit_call'.result = TRUE /\ unit'.inventory = unit.inventory \o <<item>>]_vars

\* C5 witness: an add refused by the stack limit while capacity is left
C5_Witness ==
    /\ unit_call.op = "add"
    /\ unit_call.item = "Thebian Ground Soil"
    /\ unit_call.result = FALSE
    /\ Count(unit.inventory, "Thebian Ground Soil") = MAX_RESOURCE_STACK
    /\ Len(unit.inventory) < unit.max_inventory

\* C6: after every advance of a clock started at hour 0, day 0, days is the
\* floor of the cumulative hours over 20 and hours is the cumulative hours
\* modulo 20.
C6_ClockIsCumulative ==
    /\ clock.days = clock_cum \div Ticks(DAY_LENGTH)
    /\ clock.hours = clock_cum % Ticks(DAY_LENGTH)

\* C6 witness: hour 10 advanced by 45 hours gives hour 15, two days later
C6_Witness ==
    /\ clock_call.arg = Ticks(45)
    /\ clock_cum = Ticks(55)
    /\ clock.hours = Ticks(15)
    /\ clock.days = 2

\* C7: advance_time with a negative argument is rejected with an error and
\* leaves hours and days unchanged.
C7_NegativeAdvanceRejected ==
    [][clock_call'.arg < 0 =>
        /\ clock_call'.result = "ValueError"
        /\ clock'.hours = clock.hours
        /\ clock'.days = clock.days]_vars

\* C7 witness: a negative advance was rejected on a clock that had run
C7_Witness ==
    /\ clock_call.arg < 0
    /\ clock_call.result = "ValueError"
    /\ clock.hours > 0
    /\ clock.days > 0

-----------------------------------------------------------------------------
(* Claims about the Game: the clock, the checkpoints and the facilities *)

\* the last message queued on a Room, or "None"
LastMessage(room) ==
    IF room.messages = <<>> THEN "None" ELSE room.messages[Len(room.messages)]

\* C8: in every run of the game, 0 <= hour < 20 holds in every state that
\* immediately follows a clock advance, whatever commands preceded it,
\* including a preceding "debug set time <value>".
C8_HourInRangeAfterAdvance ==
    [][(pc = "input" /\ command'.word # "DEBUG" /\ time' # time) =>
        (0 <= time'.hours /\ time'.hours < Ticks(DAY_LENGTH))]_vars

\* C9: at Security Checkpoint (Residential) a GO to "industrial sector" or
\* "industrial plaza", and at Security Checkpoint (Industrial) a GO to
\* "residential sector" or "central plaza", changes the location, and then to
\* the checkpoint's gate, only if the ID card is in the inventory; without it
\* the location is unchanged and a rejection message is queued.
C9_CheckpointNeedsIdCard ==
    [][(/\ pc = "input"
        /\ pc' # pc
        /\ command'.word = "GO"
        /\ \/ /\ current_room = "Security Checkpoint (Residential)"
              /\ command'.second \in {"industrial sector", "industrial plaza"}
           \/ /\ current_room = "Security Checkpoint (Industrial)"
              /\ command'.second \in {"residential sector", "central plaza"})
       =>
        LET gate == IF current_room = "Security Checkpoint (Residential)"
                    THEN "Residential Checkpoint Gate" ELSE "Industrial Checkpoint Gate"
            rejection == IF current_room = "Security Checkpoint (Residential)"
                         THEN "You need your ID card to pass. Creedal shakes his head."
                         ELSE "You need your ID card to pass. Weatherbee holds up a hand"
            carried == "ID card" \in Range(player.inventory)
        IN /\ current_room' # current_room => carried /\ current_room' = gate
           /\ ~carried =>
                /\ current_room' = current_room
                /\ rooms'[current_room].messages =
                       Append(rooms[current_room].messages, rejection)]_vars

\* C9 witness: the player without the ID card has just been turned away at
\* the residential checkpoint
C9_Witness ==
    /\ pc = "tail"
    /\ command.word = "GO"
    /\ command.second = "industrial sector"
    /\ current_room = "Security Checkpoint (Residential)"
    /\ "ID card" \notin Range(player.inventory)
    /\ LastMessage(rooms[current_room]) =
           "You need your ID card to pass. Creedal shakes his head."

\* C10: from Industrial Plaza a GO to "refinery" or "deposit station" issued
\* while FACILITY_CLOSE_HOUR <= hour < FACILITY_OPEN_HOUR is rejected: the
\* location and the clock are unchanged and a message naming the reopening
\* hour is queued; outside that window the same GO succeeds.
C10_FacilitiesTimeGated ==
    [][(/\ pc = "input"
        /\ pc' # pc
        /\ command'.word = "GO"
        /\ current_room = "Industrial Plaza"
        /\ command'.second \in {"refinery", "deposit station"})
       =>
        LET facility == IF command'.second = "refinery" THEN "Refinery" ELSE "Deposit Station"
            closed == "The " \o facility \o
                      " is closed from 15:00-20:00 for standard maintenance."
        IN IF Ticks(FACILITY_CLOSE_HOUR) <= time.hours /\ time.hours < Ticks(FACILITY_OPEN_HOUR)
           THEN /\ current_room' = current_room
                /\ time' = time
                /\ rooms'[current_room].messages =
                       Append(rooms[current_room].messages, closed)
           ELSE current_room' = facility]_vars

\* C10 witness: at 15:30, half an hour into the window, the player has just
\* been refused at the Refinery
C10_Witness ==
    /\ pc = "tail"
    /\ command.word = "GO"
    /\ command.second = "refinery"
    /\ current_room = "Industrial Plaza"
    /\ time.hours = Ticks(FACILITY_CLOSE_HOUR) + HalfHour
    /\ LastMessage(rooms[current_room]) =
           "The Refinery is closed from 15:00-20:00 for standard maintenance."

-----------------------------------------------------------------------------
(* Claims about the Game: the quests *)

\* C1: in every state in which the game still accepts input at least one of
\* the five quest flags is false: whichever quest is completed last, and
\* through whichever command, the good ending is entered in that same turn,
\* before the next input is read.
C1_LastQuestEndsTheGame ==
    AllQuestsComplete(player) => pc = "done" /\ ending = "good"

\* C1 witness: Foreman Long's quest was the last of the five, and the talk
\* with him ended the game with the good ending
C1_Witness ==
    /\ AllQuestsComplete(player)
    /\ command = Typed("TALK", "to colony foreman long")
    /\ pc = "done"
    /\ ending = "good"

\* C2: a quest flag is set only by a command issued while the quest's
\* condition holds: cecil in state cecil_quest_prompt with the lucky coin
\* held, creedal in state creedal_quest_prompt with the Steamed Buns held,
\* ephsus in state ephsus_quest_prompt with the delivered soil reaching 10,
\* weatherbee in state weatherbee_spirits_prompt, long with Colony Foreman
\* Long present at Memorial Pond, which takes donations of 200 or more; hence
\* long_quest_complete implies total_donations >= 200 in every state.
C2_QuestFlagsNeedTheirConditions ==
    [][LET Set(flag) == ~player[flag] /\ player'[flag]
       IN /\ Set("cecil_quest_complete") =>
                /\ StateOf(Game) = "cecil_quest_prompt"
                /\ "lucky coin" \in Range(player.inventory)
          /\ Set("creedal_quest_complete") =>
                /\ StateOf(Game) = "creedal_quest_prompt"
                /\ "Steamed Buns" \in Range(player.inventory)
          /\ Set("ephsus_quest_complete") =>
                /\ StateOf(Game) = "ephsus_quest_prompt"
                /\ player.ephsus_soil_given < SOIL_SAMPLES_REQUIRED
                /\ player'.ephsus_soil_given = SOIL_SAMPLES_REQUIRED
          /\ Set("weatherbee_quest_complete") => StateOf(Game) = "weatherbee_spirits_prompt"
          /\ Set("long_quest_complete") =>
                /\ current_room = "Memorial Pond"
                /\ "Colony Foreman Long" \in Range(rooms["Memorial Pond"].npcs)
                /\ total_donations >= FOREMAN_SPAWN_DONATION_THRESHOLD
          /\ player'.long_quest_complete =>
                total_donations' >= FOREMAN_SPAWN_DONATION_THRESHOLD]_vars

-----------------------------------------------------------------------------
(* Claims about the Game: the inventory *)

\* C3: after any sequence of game commands (take, mine away, market and
\* black-market purchases, debug give, deposits, quest hand-ins) the inventory
\* has at most max_inventory entries, and of every resource at most
\* MAX_RESOURCE_STACK entries.
C3_InventoryWithinLimits ==
    /\ Len(player.inventory) <= player.max_inventory
    /\ \A r \in Resources : Count(player.inventory, r) <= MAX_RESOURCE_STACK

\* a debug give is refused by the stack limit in an inventory that has room
C3_Witness ==
    /\ pc = "tail"
    /\ command = Debug("give clagnum putty", 0)
    /\ Count(player.inventory, "Clagnum Putty") = MAX_RESOURCE_STACK
    /\ Len(player.inventory) < player.max_inventory
    /\ LastMessage(rooms[current_room]) = "Debug: Player inventory is full."

\* C4: remove_from_inventory of a key item outside the allow-list removes
\* nothing, also when the item is held; and an ID card or a mining gun that is
\* in the inventory is still there after every command (drop, both deposits,
\* quest hand-ins, purchases).
C4_EssentialKeyItemsStay ==
    [][/\ \A k \in KeyItems \ RemovableKeyItems :
             ~CanRemove(player, k) /\ RemoveFromInventory(player, k) = player
       /\ \A k \in {"ID card", "mining gun"} :
             k \in Range(player.inventory) => k \in Range(player'.inventory)]_vars

\* the refinery has taken the putty and left the ID card and the mining gun
C4_Witness ==
    /\ pc = "tail"
    /\ command = Typed("INSERT", "id card")
    /\ current_room = "Refinery"
    /\ Count(player.inventory, "Clagnum Putty") = 0
    /\ "ID card" \in Range(player.inventory)
    /\ "mining gun" \in Range(player.inventory)

-----------------------------------------------------------------------------
(* Claims about the Game: travel, the corridor and the pond *)

\* C11: every GO command that changes the player's location advances the
\* clock by exactly half an hour, from every room and for every label, the
\* passage from a security checkpoint into its gate included; a GO that
\* leaves the location unchanged leaves the clock unchanged.
C11_TravelTakesHalfAnHour ==
    [][(pc = "input" /\ pc' # pc /\ command'.word = "GO")
       =>
        IF current_room' # current_room
        THEN Ticks(DAY_LENGTH) * time'.days + time'.hours =
                 Ticks(DAY_LENGTH) * time.days + time.hours + HalfHour
        ELSE time' = time]_vars

\* C12: after any sequence of commands, completing Cecil's quest and walking
\* into the Residential Corridor again any number of times included, the
\* corridor's NPC list holds exactly one entry for Greyman Cecil, with or
\* without the completion marker, and its main menu holds exactly one
\* "talk to Greyman Cecil" entry.
C12_OneCecilInTheCorridor ==
    LET corridor == rooms["Residential Corridor"]
    IN /\ Count(corridor.npcs, "Greyman Cecil") + Count(corridor.npcs, Marked("Greyman Cecil")) = 1
       /\ Count(corridor.interaction_states["main"].interactions, "talk to Greyman Cecil") = 1

-----------------------------------------------------------------------------
(* Claims about the Game: the deposits *)

\* C13: an Ambrosium deposit made while quota_fulfilled < ambrosium_quota,
\* judged on the state before the deposit, raises quota_fulfilled by exactly
\* crystals + AMBROSIUM_CLUSTER_VALUE * clusters and leaves the minshin
\* unchanged, also when the deposit carries quota_fulfilled past the quota.
C13_DepositBeforeQuota ==
    [][(/\ pc = "input"
        /\ command' = Typed("INSERT", "id card")
        /\ current_room = "Deposit Station"
        /\ rooms[current_room].current_interaction_state = "deposit_prompt"
        /\ player.quota_fulfilled < player.ambrosium_quota)
       =>
        /\ player'.quota_fulfilled =
              player.quota_fulfilled + Count(player.inventory, "Ambrosium Crystal")
                  + AMBROSIUM_CLUSTER_VALUE * Count(player.inventory, "Ambrosium Cluster")
        /\ player'.minshin = player.minshin]_vars

\* a deposit of a cluster and a crystal has carried the quota from two below
\* the target past it
C13_Witness ==
    /\ pc = "tail"
    /\ command = Typed("INSERT", "id card")
    /\ current_room = "Deposit Station"
    /\ player.quota_fulfilled = WEEKLY_AMBROSIUM_QUOTA - 2 + AMBROSIUM_CLUSTER_VALUE + 1
    /\ player.quota_celebration_shown
    /\ player.minshin = INITIAL_MINSHIN
    /\ time.hours = HalfHour

\* C14: an Ambrosium deposit made while quota_fulfilled >= ambrosium_quota
\* raises the minshin by exactly MINSHIN_PER_AMBROSIUM_POST_QUOTA *
\* (crystals + AMBROSIUM_CLUSTER_VALUE * clusters) and makes no further quota
\* progress: quota_fulfilled is the same after the deposit as before it.
C14_DepositAfterQuota ==
    [][(/\ pc = "input"
        /\ command' = Typed("INSERT", "id card")
        /\ current_room = "Deposit Station"
        /\ rooms[current_room].current_interaction_state = "deposit_prompt"
        /\ player.quota_fulfilled >= player.ambrosium_quota)
       =>
        /\ player'.minshin =
              player.minshin + MINSHIN_PER_AMBROSIUM_POST_QUOTA *
                  (Count(player.inventory, "Ambrosium Crystal")
                   + AMBROSIUM_CLUSTER_VALUE * Count(player.inventory, "Ambrosium Cluster"))
        /\ player'.quota_fulfilled = player.quota_fulfilled]_vars

\* C15: for every inventory content and ordering a non-Ambrosium deposit
\* removes every Thebian Ground Soil, Clagnum Putty and Matterstone Ore entry
\* and nothing else, the other entries keeping their order, and the minshin
\* rise by exactly SOIL_SELL_PRICE * soil + CLAGNUM_SELL_PRICE * putty +
\* MATTERSTONE_SELL_PRICE * ore.
C15_RefineryTakesItsMaterials ==
    [][(/\ pc = "input"
        /\ command' = Typed("INSERT", "id card")
        /\ current_room = "Refinery"
        /\ rooms[current_room].current_interaction_state = "refinery_prompt")
       =>
        /\ player'.inventory =
              SelectSeq(player.inventory,
                        LAMBDA i : i \notin {"Thebian Ground Soil", "Clagnum Putty",
                                             "Matterstone Ore"})
        /\ player'.minshin =
              player.minshin
                  + SOIL_SELL_PRICE * Count(player.inventory, "Thebian Ground Soil")
                  + CLAGNUM_SELL_PRICE * Count(player.inventory, "Clagnum Putty")
                  + MATTERSTONE_SELL_PRICE * Count(player.inventory, "Matterstone Ore")]_vars

\* the Refinery has taken a soil and an ore from between the ID card and a
\* crystal, which stay in their order
C15_Witness ==
    /\ pc = "tail"
    /\ command = Typed("INSERT", "id card")
    /\ current_room = "Refinery"
    /\ player.inventory = <<"ID card", "Ambrosium Crystal">>
    /\ player.minshin = INITIAL_MINSHIN + SOIL_SELL_PRICE + MATTERSTONE_SELL_PRICE
    /\ time.hours = HalfHour

-----------------------------------------------------------------------------
(* Claims about the Game: the economy *)

\* the purse, the inventory, the capacity, the purchase flags and the
\* donations are what they were
NothingTraded ==
    /\ player'.minshin = player.minshin
    /\ player'.inventory = player.inventory
    /\ player'.max_inventory = player.max_inventory
    /\ player'.bought_xl_backpack = player.bought_xl_backpack
    /\ player'.bought_steamed_buns = player.bought_steamed_buns
    /\ player'.bought_mining_gun_upgrade = player.bought_mining_gun_upgrade
    /\ player'.bought_blackest_market_card = player.bought_blackest_market_card
    /\ total_donations' = total_donations

\* one transaction typed where its seller stands: with too little money, or no
\* free slot for a good that needs one, nothing is traded; otherwise the price
\* is paid and the good is granted.  once: a good bought before is not sold
\* again and nothing is traded.
AllOrNothing(once) ==
    LET state == rooms[current_room].current_interaction_state
        full == Len(player.inventory) >= player.max_inventory
        Paid(price) == player'.minshin = player.minshin - price
        Sale(bought, price, needs_slot, granted) ==
            IF once /\ bought THEN NothingTraded
            ELSE IF player.minshin < price \/ (needs_slot /\ full) THEN NothingTraded
            ELSE Paid(price) /\ granted /\ total_donations' = total_donations
    IN /\ (state = "market_stall" /\ command' = Typed("BUY", "olympus xl backpack (500 minshin)"))
          => Sale(player.bought_xl_backpack, BACKPACK_PRICE, FALSE,
                  /\ player'.max_inventory = MAX_INVENTORY_UPGRADED
                  /\ player'.bought_xl_backpack
                  /\ player'.inventory = player.inventory)
       /\ (state = "market_stall" /\ command' = Typed("BUY", "steamed buns (150 minshin)"))
          => Sale(player.bought_steamed_buns, STEAMED_BUNS_PRICE, TRUE,
                  /\ player'.inventory = Append(player.inventory, "Steamed Buns")
                  /\ player'.bought_steamed_buns
                  /\ player'.max_inventory = player.max_inventory)
       /\ (state = "market_stall"
             /\ command' = Typed("BUY", "heavy beam mining gun upgrade (1500 minshin)"))
          => Sale(player.bought_mining_gun_upgrade, MINING_UPGRADE_PRICE, FALSE,
                  /\ player'.bought_mining_gun_upgrade
                  /\ player'.inventory = player.inventory
                  /\ player'.max_inventory = player.max_inventory)
       /\ (state = "blackest_market"
             /\ command' = Typed("BUY", "communications tower id card (4000 minshin)"))
          => Sale(player.bought_blackest_market_card, BLACK_MARKET_ID_PRICE, TRUE,
                  /\ player'.inventory = Append(player.inventory, "Communications Tower ID Card")
                  /\ player'.bought_blackest_market_card
                  /\ player'.max_inventory = player.max_inventory)
       /\ (state = "hinter_prophecies"
             /\ command' = Typed("WHAT", "should i pay my attention to? (50 minshin)"))
          => Sale(FALSE, PROPHECY_COST, FALSE,
                  /\ LastMessage(rooms'[current_room]) = "Hinter takes your Minshin"
                  /\ player'.inventory = player.inventory
                  /\ player'.max_inventory = player.max_inventory)
       /\ (state = "donating" /\ command'.word = "DIGITS")
          => IF command'.number < MINIMUM_DONATION \/ command'.number > player.minshin
             THEN NothingTraded
             ELSE /\ Paid(command'.number)
                  /\ total_donations' = total_donations + command'.number
                  /\ player'.inventory = player.inventory
                  /\ player'.max_inventory = player.max_inventory

\* C16 as stated: every economic transaction (backpack, Steamed Buns,
\* mining-gun upgrade, Communications Tower ID Card, prophecy, donation) is
\* all-or-nothing: when the minshin are below the price (or the donation
\* exceeds the minshin or is below MINIMUM_DONATION) or the inventory has no
\* free slot for the purchased item, minshin, inventory, capacity, purchase
\* flags and total_donations are all unchanged; otherwise the minshin
\* decrease by exactly the price and the good is granted.
C16_AllOrNothing ==
    [][(pc = "input" /\ pc' # pc) => AllOrNothing(FALSE)]_vars

\* C16, amended: the same, for a good that was not bought before; the four
\* goods are sold once, and a further attempt to buy one changes nothing.
C16_AllOrNothingSoldOnce ==
    [][(pc = "input" /\ pc' # pc) => AllOrNothing(TRUE)]_vars

\* the Steamed Buns were refused for want of a free slot, and the player who
\* could afford them has kept the money
C16_Witness ==
    /\ pc = "tail"
    /\ command = Typed("BUY", "steamed buns (150 minshin)")
    /\ LastMessage(rooms[current_room]) = "Your inventory is full."
    /\ Len(player.inventory) = player.max_inventory
    /\ player.minshin >= STEAMED_BUNS_PRICE
    /\ ~player.bought_steamed_buns

\* C17: after any sequence of player commands that does not use the debug
\* surface, the player's minshin are an integer >= 0.
C17_MinshinNeverNegative ==
    ~debug_mode => player.minshin \in Nat

\* without the debug surface the player has spent the whole initial purse on
\* a prophecy, and has then been refused at the stall
C17_Witness ==
    /\ ~debug_mode
    /\ pc = "tail"
    /\ command = Typed("BUY", "steamed buns (150 minshin)")
    /\ player.minshin = INITIAL_MINSHIN - PROPHECY_COST
    /\ LastMessage(rooms[current_room]) = "You don't have enough Minshin for that."

-----------------------------------------------------------------------------
(* Claims about the Game: the end of the quota period *)

\* C18: after any dispatched command that does not itself end the game, if
\* day >= QUOTA_PERIOD_DAYS the loop ends in that same turn with exactly one
\* ending: good if all five quests are complete, otherwise deportation if
\* quota_fulfilled < ambrosium_quota, otherwise average worker; so no input is
\* ever read in a state with day >= QUOTA_PERIOD_DAYS.
C18_QuotaPeriodEndsTheGame ==
    /\ [](pc = "input" => time.days < QUOTA_PERIOD_DAYS)
    /\ [][(pc = "tail" /\ time.days >= QUOTA_PERIOD_DAYS)
          => /\ pc' = "done"
             /\ ending' = IF AllQuestsComplete(player) THEN "good"
                          ELSE IF player.quota_fulfilled < player.ambrosium_quota
                          THEN "deportation"
                          ELSE "average"]_vars

\* the walk into the quarters at 19:30 of the last day has ended the period
\* for a player who filled the quota
C18_Witness ==
    /\ pc = "done"
    /\ command = Typed("GO", "your quarters")
    /\ time = [hours |-> 0, days |-> QUOTA_PERIOD_DAYS]
    /\ player.quota_fulfilled = WEEKLY_AMBROSIUM_QUOTA
    /\ ending = "average"

-----------------------------------------------------------------------------
(* Claims about the Game: the pond *)

\* C19: after any sequence of donations and threshold checks the Memorial
\* Pond lists Colony Foreman Long, with or without the completion marker, at
\* most once, and lists him whenever total_donations >=
\* FOREMAN_SPAWN_DONATION_THRESHOLD after a completed donation; a further
\* check_for_foreman_spawn once he is present changes neither the NPC list
\* nor the menu nor the message queue.
C19_ForemanAppearsOnce ==
    LET pond == rooms["Memorial Pond"]
        listed == Count(pond.npcs, "Colony Foreman Long")
                  + Count(pond.npcs, Marked("Colony Foreman Long"))
        again == CheckForForemanSpawn(Game).rooms["Memorial Pond"]
    IN /\ listed <= 1
       /\ total_donations >= FOREMAN_SPAWN_DONATION_THRESHOLD => listed = 1
       /\ listed = 1 =>
             /\ again.npcs = pond.npcs
             /\ again.interaction_states = pond.interaction_states
             /\ again.messages = pond.messages

\* the Foreman, thanked and marked, is still listed once after one more
\* donation has run the threshold check again
C19_Witness ==
    /\ pc = "tail"
    /\ command = Digits(MINIMUM_DONATION)
    /\ total_donations >= FOREMAN_SPAWN_DONATION_THRESHOLD + MINIMUM_DONATION
    /\ rooms["Memorial Pond"].npcs = <<Marked("Colony Foreman Long")>>
    /\ LastMessage(rooms["Memorial Pond"]) = "You donated Minshin."

\* C20: after any sequence of add_item and remove_item calls on a Room, the
\* same item name added more than once included, the main menu holds a
\* "take <name>" entry if and only if an item of that name is among the
\* room's visible items; remove_item deletes exactly the entry generated for
\* the removed item.
C20_TakeEntriesFollowTheItems ==
    LET room == rooms["Deposit Station"]
        menu == room.interaction_states["main"].interactions
    IN \A name \in ITEMS :
          /\ ("take " \o name) \in Range(menu) <=> name \in Range(room.items)
          /\ Count(menu, "take " \o name) = Count(room.items, name)

-----------------------------------------------------------------------------
(* Claims about the Room: exits, NPCs, interaction states, messages *)

\* the main menu of the room under test
RoomMenu(room) == room.interaction_states["main"].interactions

\* C21: add_exit(label, room) maps the label to the room in the exit map and
\* appends exactly one "go <label>" entry to the main state's menu; every
\* other state's menu, the items, the NPCs and the message queue stay as they
\* were; get_exit of a label never added returns no Room.
C21_AddExitChangesExitsAndMainMenu ==
    [][LET before == rooms["Deposit Station"]
           after == rooms'["Deposit Station"]
           label == room_call'.arg
       IN /\ room_call'.op = "add_exit" =>
                /\ label \in DOMAIN after.exits
                /\ after.exits[label] = "Refinery"
                /\ \A other \in DOMAIN before.exits \ {label} :
                      other \in DOMAIN after.exits /\ after.exits[other] = before.exits[other]
                /\ DOMAIN after.exits = DOMAIN before.exits \cup {label}
                /\ RoomMenu(after) = Append(RoomMenu(before), "go " \o label)
                /\ DOMAIN after.interaction_states = DOMAIN before.interaction_states
                /\ \A s \in DOMAIN before.interaction_states \ {"main"} :
                      after.interaction_states[s] = before.interaction_states[s]
                /\ after.interaction_states["main"].parent
                      = before.interaction_states["main"].parent
                /\ after.items = before.items
                /\ after.npcs = before.npcs
                /\ after.messages = before.messages
                /\ after.current_interaction_state = before.current_interaction_state
          /\ room_call'.op = "get_exit" /\ label \notin DOMAIN before.exits =>
                room_call'.result = <<"None">>
      ]_vars

\* an exit was added under a new label, and an exit never added was asked for
C21_Witness ==
    /\ room_call.op = "get_exit"
    /\ room_call.arg = "south"
    /\ room_call.result = <<"None">>
    /\ "north" \in DOMAIN rooms["Deposit Station"].exits
    /\ Count(RoomMenu(rooms["Deposit Station"]), "go north") = 1

\* C22: add_npc is idempotent: however often the same NPC name is added, the
\* room's NPC list holds the name exactly once and the main menu holds exactly
\* one "talk to <name>" entry; a repeated call changes nothing in the room.
C22_AddNpcIsIdempotent ==
    [][room_call'.op = "add_npc" =>
          LET before == rooms["Deposit Station"]
              after == rooms'["Deposit Station"]
              npc == room_call'.arg
          IN /\ Count(after.npcs, npc) = 1
             /\ Count(RoomMenu(after), "talk to " \o npc) = 1
             /\ room_call'.repeats > 1 => after = before
             /\ AddNpc(after, npc) = after
      ]_vars

\* the same NPC was added three times in a row
C22_Witness ==
    /\ room_call.op = "add_npc"
    /\ room_call.arg = "Dr. Test"
    /\ room_call.repeats = 3
    /\ Count(rooms["Deposit Station"].npcs, "Dr. Test") = 1
    /\ Count(RoomMenu(rooms["Deposit Station"]), "talk to Dr. Test") = 1

\* C23: set_interaction_state with an id that is no registered state of the
\* room leaves current_interaction_state equal to "main", whatever the state
\* before; with a registered id it makes that id the current state.  So the
\* current state always names a registered state.
C23_SetStateFallsBackToMain ==
    /\ [](rooms["Deposit Station"].current_interaction_state
             \in DOMAIN rooms["Deposit Station"].interaction_states)
    /\ [][room_call'.op = "set_interaction_state" =>
             LET before == rooms["Deposit Station"]
                 after == rooms'["Deposit Station"]
                 state == room_call'.arg
             IN /\ after.current_interaction_state
                      = IF state \in DOMAIN before.interaction_states THEN state ELSE "main"
                /\ after = [before EXCEPT !.current_interaction_state
                                             = after.current_interaction_state]
         ]_vars

\* an unregistered id was set while the room was in the deposit prompt
C23_Witness ==
    /\ room_call.op = "set_interaction_state"
    /\ room_call.arg = "testing"
    /\ room_call.from = "deposit_prompt"
    /\ rooms["Deposit Station"].current_interaction_state = "main"

\* C26: draining the room's message queue returns the pushed messages in push
\* order and empties the queue: add_message appends at the end, get_messages
\* returns the whole queue and leaves it empty, so a second drain with no push
\* in between returns nothing and no message is delivered twice.
C26_DrainDeliversOnce ==
    [][LET before == rooms["Deposit Station"]
           after == rooms'["Deposit Station"]
       IN /\ room_call'.op = "add_message" =>
                after = [before EXCEPT !.messages = Append(before.messages, room_call'.arg)]
          /\ room_call'.op = "get_messages" =>
                /\ room_call'.result = before.messages
                /\ after = [before EXCEPT !.messages = <<>>]
                /\ room_call'.repeats > 1 => room_call'.result = <<>>
          /\ room_call'.op \notin {"add_message", "get_messages"} =>
                after.messages = before.messages
      ]_vars

\* two messages were pushed and drained in push order, the queue now empty
C26_Witness ==
    /\ room_call.op = "get_messages"
    /\ room_call.result = <<"Hello", "World">>
    /\ rooms["Deposit Station"].messages = <<>>

-----------------------------------------------------------------------------
(* Claims about the Game: the menus and the dispatch of commands *)

\* following the parent pointers of a room's states from one of them reaches
\* "main" through registered states, none of them met twice
RECURSIVE ClimbsToMain(_, _, _)
ClimbsToMain(states, state, seen) ==
    IF state = "main" THEN TRUE
    ELSE IF state \in seen \/ state \notin DOMAIN states THEN FALSE
    ELSE ClimbsToMain(states,
                      IF states[state].parent = "None" THEN "main" ELSE states[state].parent,
                      seen \cup {state})

\* C24: in every room and every reachable state of the game, the states added
\* by handlers included, following parent pointers from any registered state
\* reaches "main" in finitely many steps without repeating a state; each GO
\* BACK sets the current state to the parent of the current state, or to
\* "main" when it has none, so repeated GO BACK reaches "main" and stays there.
C24_GoBackClimbsToMain ==
    /\ [](\A r \in DOMAIN rooms : \A state \in DOMAIN rooms[r].interaction_states :
             ClimbsToMain(rooms[r].interaction_states, state, {}))
    /\ [][(pc = "input" /\ command'.word = "GO" /\ command'.second = "back") =>
             LET before == rooms[current_room]
                 parent == before.interaction_states[before.current_interaction_state].parent
             IN /\ current_room' = current_room
                /\ rooms'[current_room].current_interaction_state
                      = IF parent = "None" THEN "main" ELSE parent
         ]_vars

\* GO BACK has just led from the personal information to the terminal, one
\* step below "main"
C24_Witness ==
    /\ pc = "tail"
    /\ command.word = "GO" /\ command.second = "back"
    /\ current_room = "Your Quarters"
    /\ StateOf(Game) = "terminal"

\* C27: outside the donating state a line of digits n picks the n-th entry,
\* counted from one, of the current state's menu, split into an upper-case
\* verb and the rest of the text, and the command is handled as if it had
\* been typed; for n = 0 and for n beyond the menu the line is refused with a
\* message about the number, handle_action does not run, and neither that pass
\* nor the display that follows changes the player, the clock, the current
\* room or any interaction state.
C27_NumbersPickMenuEntries ==
    [][LET menu == GetAvailableInteractions(Here(Game))
           n == command'.number
           Quiet == /\ player' = player
                    /\ time' = time
                    /\ current_room' = current_room
                    /\ \A r \in DOMAIN rooms :
                          /\ rooms'[r].current_interaction_state
                                = rooms[r].current_interaction_state
                          /\ rooms'[r].interaction_states = rooms[r].interaction_states
       IN /\ (/\ pc = "input" /\ pc' \in {"tail", "done"}
              /\ StateOf(Game) # "donating"
              /\ command'.word # "DEBUG" /\ n # 0) =>
                /\ 1 <= n /\ n <= Len(menu)
                /\ command' = [MenuCommand(menu[n]) EXCEPT !.number = n]
                /\ \E g \in {HandleAction(Game, MenuCommand(menu[n]), NoRolls)} :
                      /\ player' = g.player
                      /\ time' = g.time
                      /\ rooms' = g.rooms
                      /\ current_room' = g.current_room
          /\ (pc = "input" /\ pc' = "refused") =>
                /\ command' = Digits(n)
                /\ n = 0 \/ n > Len(menu)
                /\ StateOf(Game) # "donating"
                /\ rooms'[current_room].messages
                      = Append(rooms[current_room].messages, "Invalid action number")
                /\ Quiet
          /\ pc = "refused" => pc' = "input" /\ Quiet
      ]_vars

\* the third entry of the terminal's menu was picked by its number, and led
\* to the personal information
C27_Witness ==
    /\ pc = "tail"
    /\ command = [word |-> "PERSONAL", second |-> "information", number |-> 3]
    /\ current_room = "Your Quarters"
    /\ StateOf(Game) = "personal_info"

\* what the donation handler says
DonationReplies ==
    {"You step back from the donation bucket.",
     "Please enter a valid number or type 'go back'.",
     "You must donate at least 10 Minshin.",
     "You don't have enough Minshin.",
     "You donated Minshin.",
     "A man has appeared by the pond."}

\* C28: while the current room is in the donating state a line of digits is
\* never taken for a menu index but for an amount, and every line other than
\* QUIT, HELP, MAP, INVENTORY and DEBUG goes to the donation handler and to
\* it alone - no GO, no TAKE, no full-phrase handler runs; those five
\* commands reach their usual handlers.
C28_DonatingStateTakesTheLine ==
    [][(pc = "input" /\ StateOf(Game) = "donating") =>
          LET line == command'
              pond == rooms'[current_room]
          IN /\ pc' # "refused"
             /\ line.word \notin {"QUIT", "HELP", "MAP", "INVENTORY", "DEBUG"} =>
                   /\ current_room' = current_room
                   /\ time' = time
                   /\ debug_mode' = debug_mode
                   /\ player'.inventory = player.inventory
                   /\ [player' EXCEPT !.minshin = 0] = [player EXCEPT !.minshin = 0]
                   /\ pond.current_interaction_state \in {"donating", "main"}
                   /\ LastMessage(pond) \in DonationReplies
                   /\ line.word # "DIGITS" =>
                         /\ player' = player /\ total_donations' = total_donations
                         /\ pond.interaction_states = Here(Game).interaction_states
                         /\ pond.npcs = Here(Game).npcs
                   /\ line.word = "DIGITS" =>
                         \/ /\ line.number >= MINIMUM_DONATION
                            /\ line.number <= player.minshin
                            /\ player'.minshin = player.minshin - line.number
                            /\ total_donations' = total_donations + line.number
                            /\ pond.current_interaction_state = "main"
                         \/ /\ line.number < MINIMUM_DONATION \/ line.number > player.minshin
                            /\ player' = player /\ total_donations' = total_donations
                            /\ pond.current_interaction_state = "donating"
             /\ line.word = "QUIT" => pc' = "done"
             /\ line.word = "HELP" => LastMessage(pond) = "Primary Commands:"
             /\ line.word = "MAP" => suppress_next_room_display'
             /\ line.word = "INVENTORY" => pond.current_interaction_state = "inventory"
             /\ line.word = "DEBUG" =>
                   IF debug_mode THEN player'.minshin = line.number
                   ELSE LastMessage(pond) = "Debug mode is not active."
      ]_vars

\* GO with a destination was typed at the donation terminal: the player is
\* still at the pond, in the donating state, asked for a number
C28_Witness ==
    /\ pc = "tail"
    /\ command = Typed("GO", "central plaza")
    /\ current_room = "Memorial Pond"
    /\ StateOf(Game) = "donating"
    /\ LastMessage(Here(Game)) = "Please enter a valid number or type 'go back'."

\* the pass just made left the game as g
Becomes(g) ==
    /\ player' = g.player
    /\ time' = g.time
    /\ rooms' = g.rooms
    /\ current_room' = g.current_room
    /\ total_donations' = g.total_donations
    /\ debug_mode' = g.debug_mode

\* the third tier: the handler of the first word, or the answer that there is none
VerbTier(g, c) ==
    IF c.word \in CommandWords THEN CommandHandlers(g, c) ELSE Say(g, "I don't understand that.")

-----------------------------------------------------------------------------
(* Claims about the Game: worlds built one after another *)

\* C30: building the world a second time in the same process leaves the two
\* shared singleton Locations, Industrial Plaza and Refinery, with the same
\* exit labels and the same main-menu entries as after the first
\* construction, and no 'go <label>' entry appears twice in their menus.
C30_SecondWorldKeepsTheSingletons ==
    \A n \in CachedRooms :
        LET menu == rooms[n].interaction_states["main"].interactions
        IN /\ DOMAIN rooms[n].exits = DOMAIN CreateRooms[n].exits
           /\ menu = CreateRooms[n].interaction_states["main"].interactions
           /\ \A direction \in DOMAIN rooms[n].exits : Count(menu, "go " \o direction) = 1

-----------------------------------------------------------------------------
(* Claims about the Game: the interaction states a Room can be brought into *)

\* the Game as constructed
NewGame ==
    [player |-> NewPlayer, time |-> NewColonyTime, rooms |-> CreateRooms,
     current_room |-> "Your Quarters", mining_attempts |-> 0, total_donations |-> 0,
     debug_mode |-> FALSE, suppress_next_room_display |-> FALSE,
     ending |-> "none", finished |-> FALSE, error |-> FALSE]

\* the Game a day later: the player holds the key items and a full purse and
\* has read the job listings, and the donations have made the Foreman appear
Equipped ==
    CheckForForemanSpawn(
        [NewGame EXCEPT !.player.inventory = <<"ID card", "lucky coin", "Steamed Buns",
                                               "Communications Tower ID Card">>,
                        !.player.minshin = BLACK_MARKET_ID_PRICE,
                        !.player.weatherbee_quest_read_bulletin = TRUE,
                        !.time.days = 1,
                        !.total_donations = FOREMAN_SPAWN_DONATION_THRESHOLD,
                        !.current_room = "Memorial Pond"])

\* the same Game inside the maintenance window, Weatherbee congratulated
Night ==
    [Equipped EXCEPT !.player.weatherbee_quest_congratulated = TRUE,
                     !.time.hours = Ticks(FACILITY_CLOSE_HOUR)]

\* every entry of every menu of the world as constructed
Entries ==
    UNION {{CreateRooms[r].interaction_states[s].interactions[i] :
                i \in 1..Len(CreateRooms[r].interaction_states[s].interactions)} :
           <<r, s>> \in UNION {{<<r, s>> : s \in DOMAIN CreateRooms[r].interaction_states} :
                               r \in RoomNames}}

\* the commands a player types: every menu entry, the entries the handlers
\* add as the game goes, and the inventory
Alphabet ==
    ({MenuCommand(e) : e \in Entries} \cup
     {Typed("INVENTORY", "None"), Typed("TALK", "to colony foreman long"),
      Typed("INVESTIGATE", "memorial fountain"), Typed("HOWS", "your spirits now weatherbee"),
      Typed("CONGRATULATIONS", "on your new job")}) \ {Typed("MINE", "away")}

\* the states one command can bring the Room to from the state given
Step(room_name, from) ==
    {HandleAction([g EXCEPT !.current_room = room_name,
                            !.rooms[room_name].current_interaction_state = from],
                  c, NoRolls).rooms[room_name].current_interaction_state :
        g \in {NewGame, Equipped, Night}, c \in Alphabet}

\* the states some sequence of commands brings the Room to, starting in S
RECURSIVE Closure(_, _)
Closure(room_name, S) ==
    LET next == S \cup UNION {Step(room_name, from) : from \in S}
    IN IF next = S THEN S ELSE Closure(room_name, next)

\* for every Room, the states some sequence of commands brings it to from "main"
WithinReach == [room_name \in RoomNames |-> Closure(room_name, {"main"})]

\* C25: for every Location, every registered non-main interaction state can
\* become that Location's current state through some sequence of player
\* commands starting from the initial game state.
C25_EveryRegisteredStateCanBecomeCurrent ==
    \A room_name \in RoomNames :
        DOMAIN rooms[room_name].interaction_states \subseteq WithinReach[room_name]

-----------------------------------------------------------------------------
(* Claims about the Game: the debug surface, failures, taking and dropping *)

\* C31: while the debug flag is off, every DEBUG command (set, give, goto,
\* with any arguments) leaves the clock, the currency, the quota, the
\* inventory and the current room unchanged and only queues a message; the
\* flag changes only through the DEBUGMODE command, which toggles it.
C31_DebugNeedsTheFlag ==
    [][/\ (/\ pc = "input" /\ pc' \in {"tail", "done"}
           /\ command'.word = "DEBUG" /\ ~debug_mode) =>
             /\ time' = time
             /\ player'.minshin = player.minshin
             /\ player'.quota_fulfilled = player.quota_fulfilled
             /\ player'.inventory = player.inventory
             /\ current_room' = current_room
             /\ rooms' = [rooms EXCEPT ![current_room].messages =
                                          Append(@, "Debug mode is not active.")]
             /\ pc' = "tail"
       /\ debug_mode' # debug_mode =>
             /\ pc = "input"
             /\ command' = Typed("DEBUGMODE", "None")
             /\ StateOf(Game) # "donating"
             /\ debug_mode' = ~debug_mode
       /\ (/\ pc = "input" /\ pc' \in {"tail", "done"}
           /\ command' = Typed("DEBUGMODE", "None") /\ StateOf(Game) # "donating") =>
             debug_mode' = ~debug_mode
      ]_vars

\* "debug goto memorial pond" was typed at the Refinery after the flag had
\* been switched off again: the player is still at the Refinery and is told
\* that debug mode is not active
C31_Witness ==
    /\ pc = "tail"
    /\ command = Debug("goto memorial pond", 0)
    /\ ~debug_mode
    /\ current_room = "Refinery"
    /\ Here(Game).messages = <<"Debug mode is not active.">>

\* C32: an internal failure raised inside a handler (for example TALK naming
\* Weatherbee in a room that has no weatherbee_talk state) never ends the game
\* loop: dispatch reports 'not terminated', the current room is the same as
\* before the command, a failure message is queued on that room, and the next
\* input is accepted.
C32_FailuresAreCaught ==
    [][LET c == command'
           phrase == HandleFullPhraseCommands(Game, c, NoRolls)
           raised == IF phrase.handled THEN phrase.g.error ELSE VerbTier(Game, c).error
           weatherbee == /\ c.word = "TALK"
                         /\ Contains(c.second, "weatherbee")
                         /\ ~player.weatherbee_quest_complete
                         /\ "weatherbee_talk" \notin DOMAIN Here(Game).interaction_states
       IN /\ (/\ pc = "input" /\ pc' \in {"tail", "done"}
              /\ StateOf(Game) # "donating"
              /\ raised \/ weatherbee) =>
                /\ pc' = "tail"
                /\ ending' = "none"
                /\ current_room' = current_room
                /\ LastMessage(rooms'[current_room]) = "An error occurred trying to do that."
          /\ (pc = "tail" /\ time.days < QUOTA_PERIOD_DAYS) =>
                pc' = "input" /\ current_room' = current_room
      ]_vars

\* Weatherbee was named in the Central Plaza, which has no weatherbee_talk
\* state: the player is told of the failure and the turn goes on there
C32_Witness ==
    /\ pc = "tail"
    /\ command = Typed("TALK", "to security officer weatherbee")
    /\ current_room = "Central Plaza"
    /\ ending = "none"
    /\ LastMessage(Here(Game)) = "An error occurred trying to do that."

\* C33: TAKE moves exactly one item: on success the named item is removed
\* from its source (the opened cupboard's contents while in the cupboard
\* state, otherwise the room's visible items) and appended to the inventory;
\* when the inventory refuses, source and inventory are both unchanged.  From
\* a fresh session, opening the cupboard and taking the ID card yields an
\* inventory of exactly the ID card, and while the room is in the cupboard
\* state its menu is one 'take <name>' per item still in the cupboard,
\* followed by 'go back'.
C33_TakeMovesOneItem ==
    [][LET c == command'
           here == Here(Game)
           now == rooms'[current_room]
           cupboard(room) == IF "cupboard" \in DOMAIN room.hidden_items
                             THEN room.hidden_items["cupboard"] ELSE <<>>
           inside == StateOf(Game) = "cupboard"
           source == IF inside THEN cupboard(here) ELSE here.items
           item == FirstNamed(source, c.second)
       IN /\ (/\ pc = "input" /\ pc' \in {"tail", "done"}
              /\ c.word = "TAKE"
              /\ StateOf(Game) # "donating") =>
                /\ current_room' = current_room
                /\ \A r \in RoomNames \ {current_room} : rooms'[r] = rooms[r]
                /\ IF item # "None" /\ CanAdd(player, item)
                   THEN /\ player'.inventory = Append(player.inventory, item)
                        /\ IF inside
                           THEN /\ cupboard(now) = RemoveFirst(source, item)
                                /\ now.items = here.items
                           ELSE /\ now.items = RemoveFirst(source, item)
                                /\ now.hidden_items = here.hidden_items
                   ELSE /\ player'.inventory = player.inventory
                        /\ now.items = here.items
                        /\ now.hidden_items = here.hidden_items
          /\ \A r \in RoomNames :
                rooms'[r].current_interaction_state = "cupboard" =>
                    GetAvailableInteractions(rooms'[r]) = TakeMenu(cupboard(rooms'[r]))
      ]_vars

\* a fresh session, the cupboard opened and the ID card taken: the inventory
\* is exactly the ID card, the cupboard holds the mining gun and offers it
C33_Witness ==
    /\ pc = "tail"
    /\ command = Typed("TAKE", "id card")
    /\ player.inventory = <<"ID card">>
    /\ StateOf(Game) = "cupboard"
    /\ Here(Game).hidden_items["cupboard"] = <<"mining gun">>
    /\ GetAvailableInteractions(Here(Game)) = <<"take mining gun", "go back">>

\* C34: a successful DROP of a non-key inventory item moves it rather than
\* destroying it: one instance leaves the inventory, the same item is added to
\* the current room's visible items, and a matching 'take <name>' entry appears
\* in that room's main menu, so the number of instances in the inventory and
\* the room together is unchanged.
C34_DropMovesTheItem ==
    [][LET c == command'
           item == GetItemByName(player, c.second)
           now == rooms'[current_room]
       IN (/\ pc = "input" /\ pc' \in {"tail", "done"}
           /\ c.word = "DROP"
           /\ StateOf(Game) # "donating"
           /\ item # "None"
           /\ ItemType(item) # "KEY_ITEM"
           /\ player'.inventory = RemoveFirst(player.inventory, item)) =>
             /\ now.items = Append(Here(Game).items, item)
             /\ ("take " \o item) \in Range(now.interaction_states["main"].interactions)
             /\ Count(player'.inventory, item) + Count(now.items, item)
                    = Count(player.inventory, item) + Count(Here(Game).items, item)
      ]_vars

\* C35: MINE AWAY adds resources to the inventory, advances the clock and
\* increments the mining-attempt counter only when the player's current room
\* is the Mine Entrance; issued in any other room it changes none of them.
C35_MiningOnlyAtTheMineEntrance ==
    [][(/\ pc = "input" /\ pc' \in {"tail", "done"}
        /\ command' = Typed("MINE", "away")
        /\ current_room # "Mine Entrance") =>
            /\ player'.inventory = player.inventory
            /\ time' = time
            /\ mining_attempts' = mining_attempts
      ]_vars

-----------------------------------------------------------------------------
(* Claims about the Game: what the opened cupboard still gives *)

\* what the cupboard in Your Quarters holds at construction
CupboardItems == Range(CreateRooms["Your Quarters"].hidden_items["cupboard"])

\* Your Quarters as far as the cupboard goes: the room's current state, what
\* the cupboard holds, whether it was opened, and what the player took of it
Shelf(g) ==
    LET room == g.rooms["Your Quarters"]
    IN [state |-> room.current_interaction_state,
        contents |-> room.hidden_items["cupboard"],
        opened |-> "cupboard" \in Range(room.containers_opened),
        got |-> Range(g.player.inventory) \cap CupboardItems]

\* every such view of an opened cupboard
Shelves ==
    {a \in [state : DOMAIN CreateRooms["Your Quarters"].interaction_states,
            contents : {<<>>, <<"ID card">>, <<"mining gun">>, <<"ID card", "mining gun">>},
            opened : {TRUE},
            got : SUBSET CupboardItems] : a.got \cap Range(a.contents) = {}}

\* a Game seen as the Shelf says, the player standing in the room given
OnShelf(g, a, room_name) ==
    LET Other(item) == item \notin CupboardItems
        held == Filter(g.player.inventory, Other) \o
                    (IF "ID card" \in a.got THEN <<"ID card">> ELSE <<>>) \o
                    (IF "mining gun" \in a.got THEN <<"mining gun">> ELSE <<>>)
        room == g.rooms["Your Quarters"]
    IN [g EXCEPT !.current_room = room_name,
                 !.player.inventory = held,
                 !.rooms["Your Quarters"] =
                     SetInteractions([room EXCEPT !.current_interaction_state = a.state,
                                                  !.hidden_items["cupboard"] = a.contents,
                                                  !.containers_opened = <<"cupboard">>],
                                     "cupboard", TakeMenu(a.contents))]

\* the lines a player types that are no debug command (MINE AWAY, which finds
\* the five resources and nothing else, is left to the dice)
Lines ==
    Alphabet \cup {Typed("OPEN", "cupboard"), Typed("TAKE", "id card"),
                   Typed("TAKE", "mining gun"), Typed("TAKE", "cupboard"),
                   Typed("CHECK", "cupboard")}

\* what the player holds of the cupboard's items one line later, the line
\* typed in another room: pairs of before and after
Away ==
    UNION {{<<got, Shelf(HandleAction(OnShelf(g, [state |-> "main", contents |-> <<>>,
                                                   opened |-> TRUE, got |-> got], room_name),
                                      c, NoRolls)).got>> :
               g \in {NewGame, Equipped, Night}, c \in Lines,
               room_name \in RoomNames \ {"Your Quarters"}} :
           got \in SUBSET CupboardItems}

\* the Shelves one line leads to: typed in Your Quarters, typed in another
\* room, or the room found in its main state on coming back
Next1(a) ==
    {Shelf(HandleAction(OnShelf(g, a, "Your Quarters"), c, NoRolls)) :
        g \in {NewGame, Equipped, Night}, c \in Lines}
        \cup {[a EXCEPT !.got = p[2]] : p \in {p \in Away : p[1] = a.got}}
        \cup {[a EXCEPT !.state = "main"]}

\* every pair of a Shelf and a Shelf one line later
Edges == UNION {{<<a, b>> : b \in Next1(a)} : a \in Shelves}

\* the Shelves from which some sequence of lines leads into S
RECURSIVE LeadsInto(_)
LeadsInto(S) ==
    LET more == S \cup {e[1] : e \in {e \in Edges : e[2] \in S}}
    IN IF more = S THEN S ELSE LeadsInto(more)

\* the pairs of an item and a Shelf from which the item can still be had
Obtainable ==
    UNION {{<<item, a>> : a \in LeadsInto({a \in Shelves : item \in a.got})} :
           item \in CupboardItems}

\* C36: an item left in the opened cupboard stays obtainable: from every
\* reachable state in which the cupboard in Your Quarters has been opened and
\* still holds the ID card or the mining gun, some sequence of non-debug
\* commands leads to a state in which that item is in the inventory.
C36_LeftItemsStayObtainable ==
    \A item \in CupboardItems :
        (Shelf(Game).opened /\ item \in Range(Shelf(Game).contents)) =>
            <<item, Shelf(Game)>> \in Obtainable

-----------------------------------------------------------------------------
(* Claims about the Game: messages, the checkpoints, Weatherbee, the menus *)

\* C37: every message queued while a command is processed is queued on the
\* room that is rendered at the end of that turn: whenever input is requested,
\* no room other than the player's current room holds pending messages.
C37_MessagesWaitOnlyInTheCurrentRoom ==
    pc = "input" => \A r \in RoomNames \ {current_room} : rooms[r].messages = <<>>

\* the rooms on the industrial side of the checkpoints
IndustrialSide ==
    {"Residential Checkpoint Gate", "Industrial Plaza", "Refinery", "Mine Entrance",
     "Deposit Station", "Security Checkpoint (Industrial)", "Industrial Checkpoint Gate"}

\* C38: in any run that never uses the debug surface, whenever the player's
\* current room is on the industrial side of the checkpoints, the inventory
\* contains the ID card.
C38_IndustrialSideNeedsTheIdCard ==
    current_room \in IndustrialSide => HasItem(player, "ID card")

\* the player mines at the Mine Entrance, the ID card in the inventory
C38_Witness ==
    /\ pc = "tail"
    /\ command = Typed("MINE", "away")
    /\ current_room = "Mine Entrance"
    /\ ~debug_mode
    /\ HasItem(player, "ID card")
    /\ HasItem(player, "Thebian Ground Soil")

\* C39: Weatherbee's quest progresses in a fixed order: in every reachable
\* state weatherbee_quest_complete implies weatherbee_quest_congratulated,
\* which implies weatherbee_quest_read_bulletin; none of the three flags is
\* ever reset; and a room enters the weatherbee_spirits_prompt state only by
\* a command issued while 15 <= hour < 20.
C39_WeatherbeeInOrder ==
    [][/\ player.weatherbee_quest_complete => player.weatherbee_quest_congratulated
       /\ player.weatherbee_quest_congratulated => player.weatherbee_quest_read_bulletin
       /\ player'.weatherbee_quest_complete => player'.weatherbee_quest_congratulated
       /\ player'.weatherbee_quest_congratulated => player'.weatherbee_quest_read_bulletin
       /\ player.weatherbee_quest_read_bulletin => player'.weatherbee_quest_read_bulletin
       /\ player.weatherbee_quest_congratulated => player'.weatherbee_quest_congratulated
       /\ player.weatherbee_quest_complete => player'.weatherbee_quest_complete
       /\ \A r \in RoomNames :
            (/\ rooms[r].current_interaction_state # "weatherbee_spirits_prompt"
             /\ rooms'[r].current_interaction_state = "weatherbee_spirits_prompt") =>
                /\ pc = "input"
                /\ Ticks(FACILITY_CLOSE_HOUR) <= time.hours
                /\ time.hours < Ticks(FACILITY_OPEN_HOUR)
      ]_vars

\* Weatherbee has just had the high five: the three flags are set
C39_Witness ==
    /\ pc = "tail"
    /\ command = Typed("GIVE", "weatherbee a high five")
    /\ player.weatherbee_quest_complete
    /\ player.weatherbee_quest_congratulated
    /\ player.weatherbee_quest_read_bulletin
    /\ current_room = "Security Checkpoint (Industrial)"

\* C40: after any sequence of commands, no interaction state's menu in any
\* room contains the same action label twice.
C40_NoLabelTwiceInAMenu ==
    \A r \in RoomNames : \A state \in DOMAIN rooms[r].interaction_states :
        LET menu == rooms[r].interaction_states[state].interactions
        IN \A i, j \in 1..Len(menu) : menu[i] = menu[j] => i = j

====
